---- MODULE Spec2Model ----
(***************************************************************************)
(* Job registry and background workers of the LearnUs web application      *)
(* (src/web/app.py): the task_status table, the three job-starting         *)
(* endpoints with the worker thread each of them spawns, the               *)
(* status / pause / resume / cancel endpoints, and the merge of a course's *)
(* lectures into its declared sections.                                    *)
(***************************************************************************)
EXTENDS Integers, Sequences, FiniteSets, TLC

\* ------------------------------------------------------------------ bounds
MaxWorkers == 2      \* jobs started
MaxClock == 1        \* seconds the wall clock advances
MaxItems == 2        \* items (lectures, files) of all jobs together
MaxLoad == 3         \* jobs started and control requests served, together
ResumeItems == 3     \* items of all jobs together in the pause / resume scenario
ResumeLoad == 4      \* jobs and control requests in the pause / resume scenario
OneWorker == 1       \* the same four bounds for the runs of a single job
OneClock == 0
OneItem == 1
OneLoad == 2
BatchWorkers == 1    \* the same four bounds for the runs of batch jobs alone
BatchClock == 0
BatchItems == 2
BatchLoad == 2
MaxLectures == 2     \* lectures of a course
MaxSections == 2     \* declared sections of a course
MaxCalls == 2        \* calls of /api/courses
MaxTicks == 2        \* times the wall clock is seen to advance between the calls
SelectionCalls == 2  \* calls of /api/courses over the selections
SelectionTicks == 1  \* advances of the clock between them
CancelWorkers == 2   \* the bounds of the pause / cancel scenario: batch jobs,
CancelItems == 2     \* items of all jobs together,
CancelLoad == 4      \* jobs and control requests
MaxFiles == 2        \* files under the old directories before the migration
MaxNew == 1          \* files under the new directories before the migration

\* lecture ids a caller may name; L9 is never in lectures_cache
ItemIds == {"L1", "L9"}

Kinds == {"download", "download_single", "download_materials"}

\* task_id = f"<kind>_{int(time.time())}"
TaskId(kind, t) == <<kind, t>>

VARIABLES
    now,             \* int(time.time())
    task_status,     \* the module-level dict task_status
    lectures_cache,  \* lecture ids present in the module-level lectures_cache
    workers,         \* the daemon threads started so far, in start order
    requests,        \* number of status / pause / resume / cancel requests served
    response,        \* status code and message of the last response
    hist,            \* history of each worker (observation only)
    courses_data,    \* the lectures and declared sections of a course, and its view
    catalog,         \* auth_session, the cache file and the last answer of /api/courses
    disk             \* the download directory and the run of migrate_downloads over it

vars == <<now, task_status, lectures_cache, workers, requests, response, hist, courses_data,
          catalog, disk>>

\* ------------------------------------------------------- python dict helpers
\* d[k] = v on a dict
Put(d, k, v) == [x \in (DOMAIN d) \cup {k} |-> IF x = k THEN v ELSE d[x]]

\* d.get(k, dflt)
Get(d, k, dflt) == IF k \in DOMAIN d THEN d[k] ELSE dflt

\* task_status[id][k] = v
SetField(ts, id, k, v) == [ts EXCEPT ![id] = Put(ts[id], k, v)]

\* task_status[id]['messages'].append(m)
AppendMsg(ts, id, m) == [ts EXCEPT ![id] = Put(ts[id], "messages", Append(ts[id]["messages"], m))]

RECURSIVE AppendMsgs(_, _, _)
AppendMsgs(ts, id, ms) ==
    IF ms = <<>> THEN ts ELSE AppendMsgs(AppendMsg(ts, id, Head(ms)), id, Tail(ms))

\* int(a / b * 100) for the small a <= b the model reaches
Percent(a, b) == (a * 100) \div b

\* sequences over S of length 0..n
RECURSIVE SeqsUpTo(_, _)
SeqsUpTo(S, n) ==
    IF n = 0 THEN {<<>>}
    ELSE LET shorter == SeqsUpTo(S, n - 1)
         IN shorter \cup {Append(s, x) : s \in shorter, x \in S}

\* ------------------------------------------------------------ worker records
\* what is remembered of a worker's run, for the properties below:
\*   cancelled            a cancel request was accepted for its task id while
\*                        the record said 'running'
\*   unstarted            items the worker had not taken up at that moment
\*   finishedAfterCancel  items the worker ended after it
\*   pausedAt             completed of the record when the last pause request
\*                        was accepted, -1 before that and once resume is accepted
\*   atBoundary           the worker had no item in flight at that moment
\*   resumed              a resume request was accepted after a pause request
\*                        that had arrived at an item boundary
NoHist == [cancelled |-> FALSE, unstarted |-> 0, finishedAfterCancel |-> 0,
           pausedAt |-> -1, atBoundary |-> FALSE, resumed |-> FALSE,
           regenerated |-> FALSE, cancelledPaused |-> FALSE]

\* program points of download_task between taking an item up and counting it
InFlightPcs == {"item", "at747", "at748"}

\* the JSON body and status code of a response
Reply(code, message) == [code |-> code, message |-> message]

\* a thread: its closure variables and locals, and where it stands
NewWorker(kind, id) ==
    [kind |-> kind, task_id |-> id, pc |-> "start", weight |-> 0,
     lecture_ids |-> <<>>, local_processing |-> FALSE,
     idx |-> 0, completed |-> 0, failed |-> 0,
     item_type |-> "", item_id |-> "",
     course_id |-> <<>>, todo |-> <<>>, processed_count |-> 0, total_items |-> 0]

RECURSIVE SumWeights(_, _)
SumWeights(ws, n) == IF n = 0 THEN 0 ELSE ws[n].weight + SumWeights(ws, n - 1)

\* items named by the jobs started so far
Used == SumWeights(workers, Len(workers))

\* ------------------------------------------------------------------- Init
\* the file courses_cache.pkl does not exist
NoEntry == [state |-> "absent"]

\* nobody has logged in, and /api/courses has not been called
NoCatalog == [auth_session |-> "none", cache_file |-> NoEntry,
              sent |-> {}, opened |-> FALSE, passed_over |-> "none",
              reply |-> [success |-> FALSE], calls |-> 0, ticks |-> 0]

\* no course has been fetched
\* no download directory, and no run of migrate_downloads
NoStats == [migrated |-> 0, removed_no_ext |-> 0, skipped |-> 0, errors |-> 0]

NoDisk == [exists |-> FALSE, files |-> {}, dirs |-> {}, pc |-> "idle", dry_run |-> FALSE,
           old_dirs |-> {}, todo |-> {}, stats |-> NoStats]

NoCourseView == [pc |-> "unfetched", lectures |-> <<>>, sections_raw |-> <<>>,
                 course_sections |-> <<>>]

Init ==
    /\ now = 0
    /\ task_status = <<>>
    /\ lectures_cache = {"L1"}
    /\ workers = <<>>
    /\ requests = 0
    /\ response = Reply(0, "")
    /\ hist = <<>>
    /\ courses_data = NoCourseView
    /\ catalog = NoCatalog
    /\ disk = NoDisk

\* ------------------------------------------------ POST /api/download
BatchRecord(lecture_ids) ==
    [status |-> "running", progress |-> 0, total |-> Len(lecture_ids),
     completed |-> 0, failed |-> 0, messages |-> <<>>,
     paused |-> FALSE, stopped |-> FALSE, current_lecture_index |-> 0,
     items |-> <<>>]

\* lines 580-593 and 761-765: the record is stored, the thread is started
StartWorker(id, record, worker) ==
    /\ task_status' = Put(task_status, id, record)
    /\ workers' = Append(workers, worker)
    /\ hist' = Append(hist, NoHist)
    /\ response' = Reply(200, "")

\* int(time.time()) of a request: the clock never runs backwards
ReadClock(t) == /\ t >= now
                /\ now' = t

\* the 400 answers of lines 577-578, 1073-1074 and 1945-1946
BadRequest(message) == /\ response' = Reply(400, message)
                       /\ UNCHANGED <<now, task_status, workers, hist>>

download_lectures(lecture_ids, local_processing, t) ==
    /\ IF lecture_ids = <<>>
       THEN BadRequest("No lectures selected")
       ELSE LET id == TaskId("download", t)
            IN ReadClock(t) /\ StartWorker(id, BatchRecord(lecture_ids),
                   [NewWorker("download", id) EXCEPT
                       !.weight = Len(lecture_ids),
                       !.lecture_ids = lecture_ids,
                       !.local_processing = local_processing])
    /\ UNCHANGED <<lectures_cache, courses_data, catalog, disk, requests>>

\* ------------------------------------------------ download_task (the thread)
Rec(w) == task_status[workers[w].task_id]

Goto(w, pc) == workers' = [workers EXCEPT ![w].pc = pc]

\* the two statements of lines 615-616 and 625-626
StopBranch(id) ==
    SetField(AppendMsg(task_status, id, "Download stopped by user"), id, "status", "stopped")

\* line 620: the condition of the sleep-poll loop
StillPaused(r) == Get(r, "paused", FALSE) /\ ~Get(r, "stopped", FALSE)

\* lines 754-755
Finish(ts, id) == AppendMsg(SetField(ts, id, "status", "completed"), id, "All downloads completed!")

\* the outer handler that records the exception without the status
\* (a mutation of it)
TaskError_unmarked(ts, id) == AppendMsg(ts, id, "Task error")

\* lines 757-759 and 2122-2124: the outer handler of a worker
TaskError(ts, id) == AppendMsg(SetField(ts, id, "status", "error"), id, "Task error")

\* lines 596-610: set-up; local processing is refused in the web version
download_task_start(w) ==
    LET id == workers[w].task_id IN
    /\ workers[w].kind = "download" /\ workers[w].pc = "start"
    /\ \/ /\ workers[w].local_processing
          /\ task_status' = AppendMsg(SetField(task_status, id, "status", "error"),
                                      id, "Transcription and analysis are not available")
          /\ Goto(w, "done")
       \/ \* VideoDownloader(...) raises: outer except, lines 757-759
          /\ task_status' = TaskError(task_status, id)
          /\ Goto(w, "done")
    /\ UNCHANGED <<now, lectures_cache, courses_data, catalog, disk, requests, response, hist>>

\* download_task_loop that starts over from the first item of the list each
\* time it takes an item up (a mutation of it)
download_task_loop_rewinding(w) ==
    LET id == workers[w].task_id
        me == workers[w]
    IN
    /\ me.kind = "download"
    /\ me.pc = "loop" \/ (me.pc = "start" /\ ~me.local_processing)
    /\ IF me.idx >= Len(me.lecture_ids)
       THEN /\ task_status' = Finish(task_status, id)
            /\ Goto(w, "done")
            /\ UNCHANGED hist
       ELSE IF Get(Rec(w), "stopped", FALSE)
       THEN /\ task_status' = StopBranch(id)
            /\ Goto(w, "stopped")
            /\ UNCHANGED hist
       ELSE /\ ~StillPaused(Rec(w))
            /\ workers' = [workers EXCEPT ![w].pc = "item",
                                          ![w].idx = IF @ = Len(me.lecture_ids) - 1 THEN 0 ELSE @]
            /\ UNCHANGED <<task_status, hist>>
    /\ UNCHANGED <<now, lectures_cache, courses_data, catalog, disk, requests, response>>

\* lines 612-627 and 754-755: the next iteration of the for loop up to the
\* point where the item is taken up, or the end of the loop; while the
\* sleep-poll loop of line 620 spins the step is not taken
download_task_loop(w) ==
    LET id == workers[w].task_id
        me == workers[w]
    IN
    /\ me.kind = "download"
    /\ me.pc = "loop" \/ (me.pc = "start" /\ ~me.local_processing)
    /\ IF me.idx >= Len(me.lecture_ids)
       THEN /\ task_status' = Finish(task_status, id)
            /\ Goto(w, "done")
            /\ UNCHANGED hist
       ELSE IF Get(Rec(w), "stopped", FALSE)
       THEN /\ task_status' = StopBranch(id)
            /\ Goto(w, "stopped")
            /\ UNCHANGED hist
       ELSE /\ ~StillPaused(Rec(w))
            /\ Goto(w, "item")
            /\ UNCHANGED <<task_status, hist>>
    /\ UNCHANGED <<now, lectures_cache, courses_data, catalog, disk, requests, response>>

\* lines 754-755, reached by the break of line 617 or 627
download_task_finish(w) ==
    /\ workers[w].kind = "download" /\ workers[w].pc = "stopped"
    /\ task_status' = Finish(task_status, workers[w].task_id)
    /\ Goto(w, "done")
    /\ UNCHANGED <<now, lectures_cache, courses_data, catalog, disk, requests, response, hist>>

\* observation only: the worker is through with one more item
ItemFinished(w) ==
    hist' = [hist EXCEPT
        ![w].finishedAfterCancel = @ + (IF hist[w].cancelled THEN 1 ELSE 0)]

\* line 746
WriteProgress(ts, id, idx, n) == SetField(ts, id, "progress", Percent(idx + 1, n))

\* the tally in which an exception is raised after completed += 1 and the
\* item is counted as failed as well (a mutation of it)
Tally_counting_twice(outcome) ==
    [completed |-> IF outcome \in {"ok", "exception"} THEN 1 ELSE 0,
     failed |-> IF outcome = "ok" THEN 0 ELSE 1]

\* lines 636, 651, 664, 742 and 751: what an item adds to the locals
\* completed and failed; transcriber, summarizer and video_analyzer are
\* None (605-607), so no statement between 664 and 748 raises
Tally(outcome) ==
    [completed |-> IF outcome = "ok" THEN 1 ELSE 0,
     failed |-> IF outcome = "ok" THEN 0 ELSE 1]

\* download_task_item without the inner try of line 629: an exception while
\* the item is processed leaves the loop (a mutation of it)
download_task_item_aborting(w, outcome) ==
    LET id == workers[w].task_id
        me == workers[w]
        lecture_id == me.lecture_ids[me.idx + 1]
        At631 == SetField(task_status, id, "current_lecture_index", me.idx)
        next(c, f) == /\ workers' = [workers EXCEPT ![w].completed = @ + c, ![w].failed = @ + f,
                                                    ![w].idx = @ + 1, ![w].pc = "loop"]
                      /\ ItemFinished(w)
        report(c, f) == /\ workers' = [workers EXCEPT ![w].completed = @ + c, ![w].failed = @ + f,
                                                      ![w].pc = "at747"]
                        /\ UNCHANGED hist
    IN
    /\ me.kind = "download" /\ me.pc = "item"
    /\ IF lecture_id \notin lectures_cache
       THEN /\ outcome = "notfound"
            /\ task_status' = AppendMsg(At631, id, "Lecture not found")
            /\ next(0, 1)
       ELSE \/ /\ outcome = "nourl"
               /\ task_status' = AppendMsgs(At631, id,
                      <<"Extracting video URL", "Failed to extract video URL">>)
               /\ next(0, 1)
            \/ /\ outcome = "ok"
               /\ task_status' = WriteProgress(
                      AppendMsgs(At631, id, <<"Extracting video URL", "Downloading", "Downloaded">>),
                      id, me.idx, Len(me.lecture_ids))
               /\ report(1, 0)
            \/ /\ outcome = "dlfail"
               /\ task_status' = WriteProgress(
                      AppendMsgs(At631, id, <<"Extracting video URL", "Downloading", "Failed to download">>),
                      id, me.idx, Len(me.lecture_ids))
               /\ report(0, 1)
            \/ /\ outcome = "exception"
               /\ task_status' = AppendMsgs(SetField(At631, id, "status", "error"), id,
                      <<"Extracting video URL", "Task error">>)
               /\ Goto(w, "done")
               /\ ItemFinished(w)
    /\ UNCHANGED <<now, lectures_cache, courses_data, catalog, disk, requests, response>>

\* lines 629-752: one item, with the outcome of the collaborators
download_task_item(w, outcome) ==
    LET id == workers[w].task_id
        me == workers[w]
        lecture_id == me.lecture_ids[me.idx + 1]
        At631 == SetField(task_status, id, "current_lecture_index", me.idx)
        next(c, f) == /\ workers' = [workers EXCEPT ![w].completed = @ + c, ![w].failed = @ + f,
                                                    ![w].idx = @ + 1, ![w].pc = "loop"]
                      /\ ItemFinished(w)
        report(c, f) == /\ workers' = [workers EXCEPT ![w].completed = @ + c, ![w].failed = @ + f,
                                                      ![w].pc = "at747"]
                        /\ UNCHANGED hist
    IN
    /\ me.kind = "download" /\ me.pc = "item"
    /\ IF lecture_id \notin lectures_cache
       THEN \* lines 635-638
            /\ outcome = "notfound"
            /\ task_status' = AppendMsg(At631, id, "Lecture not found")
            /\ next(Tally(outcome).completed, Tally(outcome).failed)
       ELSE \/ \* lines 650-653
               /\ outcome = "nourl"
               /\ task_status' = AppendMsgs(At631, id,
                      <<"Extracting video URL", "Failed to extract video URL">>)
               /\ next(Tally(outcome).completed, Tally(outcome).failed)
            \/ \* lines 663-665
               /\ outcome = "ok"
               /\ task_status' = WriteProgress(
                      AppendMsgs(At631, id, <<"Extracting video URL", "Downloading", "Downloaded">>),
                      id, me.idx, Len(me.lecture_ids))
               /\ report(Tally(outcome).completed, Tally(outcome).failed)
            \/ \* lines 741-743
               /\ outcome = "dlfail"
               /\ task_status' = WriteProgress(
                      AppendMsgs(At631, id, <<"Extracting video URL", "Downloading", "Failed to download">>),
                      id, me.idx, Len(me.lecture_ids))
               /\ report(Tally(outcome).completed, Tally(outcome).failed)
            \/ \* lines 750-752
               /\ outcome = "exception"
               /\ task_status' = AppendMsgs(At631, id,
                      <<"Extracting video URL", "Error processing lecture">>)
               /\ next(Tally(outcome).completed, Tally(outcome).failed)
    /\ UNCHANGED <<now, lectures_cache, courses_data, catalog, disk, requests, response>>

\* line 747: the completed count of the worker goes to the record
download_task_completed(w) ==
    /\ workers[w].kind = "download" /\ workers[w].pc = "at747"
    /\ task_status' = SetField(task_status, workers[w].task_id, "completed", workers[w].completed)
    /\ Goto(w, "at748")
    /\ UNCHANGED <<now, lectures_cache, courses_data, catalog, disk, requests, response, hist>>

\* line 748: the failed count of the worker goes to the record, and the
\* iteration is over
download_task_failed(w) ==
    /\ workers[w].kind = "download" /\ workers[w].pc = "at748"
    /\ task_status' = SetField(task_status, workers[w].task_id, "failed", workers[w].failed)
    /\ workers' = [workers EXCEPT ![w].idx = @ + 1, ![w].pc = "loop"]
    /\ ItemFinished(w)
    /\ UNCHANGED <<now, lectures_cache, courses_data, catalog, disk, requests, response>>

\* ------------------------------------------------ POST /api/download-single
SingleRecord(item_id) ==
    [status |-> "running", progress |-> 0, total |-> 1,
     completed |-> 0, failed |-> 0, messages |-> <<>>,
     paused |-> FALSE, stopped |-> FALSE,
     items |-> Put(<<>>, item_id, [progress |-> 0, status |-> "downloading"])]

\* the (type, id) pairs a caller may name; a material and an assignment take
\* the same branch (line 1149) and differ in the directory only
SingleItems == {<<"video", i>> : i \in ItemIds}
               \cup {<<"material", "f1">>, <<"quiz", "q1">>, <<"", "f1">>}

download_single_item(item_type, item_id, t) ==
    /\ IF item_type = ""
       THEN BadRequest("Item type and ID required")
       ELSE LET id == TaskId("download_single", t)
            IN ReadClock(t) /\ StartWorker(id, SingleRecord(item_id),
                   [NewWorker("download_single", id) EXCEPT
                       !.weight = 1, !.item_type = item_type, !.item_id = item_id])
    /\ UNCHANGED <<lectures_cache, courses_data, catalog, disk, requests>>

\* the three assignments of a branch that ends the single download
SingleEnd(ts, id, status, item_id, setItem) ==
    LET counted == IF status = "completed"
                   THEN SetField(SetField(ts, id, "status", "completed"), id, "completed", 1)
                   ELSE SetField(SetField(ts, id, "status", "error"), id, "failed", 1)
        entry == IF status = "completed" THEN [progress |-> 100, status |-> "completed"]
                 ELSE [progress |-> 0, status |-> "failed"]
    IN IF setItem
       THEN SetField(counted, id, "items", Put(counted[id]["items"], item_id, entry))
       ELSE counted

\* lines 1485-1540, called by worker w: the hierarchy listing is written anew
\* from the download directory; the function catches its own exceptions
update_hierarchy_file(w) == hist' = [hist EXCEPT ![w].regenerated = TRUE]

\* the exits of download_single_task that come to line 1190: all but the
\* returns of lines 1106, 1114, 1128, 1136 and 1173 and the handler of 1192
Reaches1190(item_type, outcome) ==
    \/ outcome \in {"ok", "dlfail", "nothing"}
    \/ outcome = "exists" /\ item_type # "video"

SingleOutcomes == {"notfound", "nourl", "relocated", "exists", "ok", "dlfail",
                   "exception", "nothing"}

\* lines 1090-1195: download_single_task, with the outcome of the collaborators
download_single_task(w, outcome) ==
    LET id == workers[w].task_id
        me == workers[w]
    IN
    /\ me.kind = "download_single" /\ me.pc = "start"
    /\ \/ \* lines 1102-1106
          /\ outcome = "notfound"
          /\ me.item_type = "video" /\ me.item_id \notin lectures_cache
          /\ task_status' = AppendMsg(SingleEnd(task_status, id, "error", me.item_id, FALSE),
                                      id, "Lecture not found")
       \/ \* lines 1110-1114
          /\ outcome = "nourl"
          /\ me.item_type = "video" /\ me.item_id \in lectures_cache
          /\ task_status' = AppendMsg(SingleEnd(task_status, id, "error", me.item_id, FALSE),
                                      id, "Failed to extract video URL")
       \/ \* lines 1119-1128 and 1164-1173
          /\ outcome = "relocated"
          /\ me.item_type \in {"material", "assignment"}
                \/ (me.item_type = "video" /\ me.item_id \in lectures_cache)
          /\ task_status' = SingleEnd(AppendMsg(task_status, id, "Found existing file in old structure"),
                                      id, "completed", me.item_id, TRUE)
       \/ \* lines 1131-1136
          /\ outcome = "exists"
          /\ me.item_type = "video" /\ me.item_id \in lectures_cache
          /\ task_status' = AppendMsg(SingleEnd(task_status, id, "completed", me.item_id, TRUE),
                                      id, "File already exists")
       \/ \* lines 1175-1178
          /\ outcome = "exists"
          /\ me.item_type \in {"material", "assignment"}
          /\ task_status' = AppendMsg(SingleEnd(task_status, id, "completed", me.item_id, FALSE),
                                      id, "File already exists")
       \/ \* lines 1138-1143
          /\ outcome = "ok"
          /\ me.item_type = "video" /\ me.item_id \in lectures_cache
          /\ task_status' = SingleEnd(AppendMsg(task_status, id, "Downloading"),
                                      id, "completed", me.item_id, TRUE)
       \/ \* lines 1144-1147
          /\ outcome = "dlfail"
          /\ me.item_type = "video" /\ me.item_id \in lectures_cache
          /\ task_status' = SingleEnd(AppendMsg(task_status, id, "Downloading"),
                                      id, "error", me.item_id, TRUE)
       \/ \* lines 1180-1187
          /\ outcome \in {"ok", "dlfail"}
          /\ me.item_type \in {"material", "assignment"}
          /\ task_status' = SingleEnd(task_status, id,
                                      IF outcome = "ok" THEN "completed" ELSE "error",
                                      me.item_id, TRUE)
       \/ \* lines 1192-1195
          /\ outcome = "exception"
          /\ me.item_type \in {"video", "material", "assignment"}
          /\ task_status' = AppendMsg(SingleEnd(task_status, id, "error", me.item_id, FALSE),
                                      id, "Error")
       \/ \* neither branch of lines 1100 and 1149 is taken
          /\ outcome = "nothing"
          /\ me.item_type \notin {"video", "material", "assignment"}
          /\ UNCHANGED task_status
    /\ Goto(w, "done")
    /\ IF Reaches1190(me.item_type, outcome) THEN update_hierarchy_file(w) ELSE UNCHANGED hist
    /\ UNCHANGED <<now, lectures_cache, courses_data, catalog, disk, requests, response>>

\* ------------------------------------------------ POST /api/download-materials
MaterialsRecord ==
    [status |-> "running", progress |-> 0, total |-> 0,
     completed |-> 0, failed |-> 0, messages |-> <<"Fetching course content...">>]

\* what scraper.parse_course_content, parse_folder_page and
\* parse_assignment_page report of a course
File(name) == [name |-> name, type |-> "file", files |-> 0]
Folder(name, n) == [name |-> name, type |-> "folder", files |-> n]
Assignment(name, r, s) == [name |-> name, requirements |-> r, submissions |-> s]
Section(mats, assigns) == [materials |-> mats, assignments |-> assigns]

\* the courses of the site: a course id stands for the content it has
Courses ==
    {<<>>, <<Section(<<File("a")>>, <<>>)>>,
     <<Section(<<File("a")>>, <<>>), Section(<<File("b")>>, <<>>)>>,
     <<Section(<<Folder("d", MaxItems)>>, <<>>)>>,
     <<Section(<<>>, <<Assignment("hw", MaxItems - 1, 1)>>)>>}

Rep(x, n) == [i \in 1..n |-> x]

MatSteps(m) ==
    IF m.type = "folder"
    THEN <<[op |-> "folder", name |-> m.name]>> \o Rep([op |-> "ffile", name |-> m.name], m.files)
    ELSE <<[op |-> "file", name |-> m.name]>>

AssignSteps(a) ==
    <<[op |-> "assign", name |-> a.name]>>
    \o Rep([op |-> "req", name |-> a.name], a.requirements)
    \o Rep([op |-> "sub", name |-> a.name], a.submissions)
    \o <<[op |-> "assign_end", name |-> a.name]>>

\* line 2011: the first n materials of a section, in order
RECURSIVE MaterialsSteps(_, _)
MaterialsSteps(mats, n) ==
    IF n = 0 THEN <<>> ELSE MaterialsSteps(mats, n - 1) \o MatSteps(mats[n])

\* line 2068: the first n assignments of a section, in order
RECURSIVE AssignmentsSteps(_, _)
AssignmentsSteps(assigns, n) ==
    IF n = 0 THEN <<>> ELSE AssignmentsSteps(assigns, n - 1) \o AssignSteps(assigns[n])

SectionSteps(sec) ==
    MaterialsSteps(sec.materials, Len(sec.materials))
    \o AssignmentsSteps(sec.assignments, Len(sec.assignments))

\* line 2006: the first n sections, in order
RECURSIVE SectionsSteps(_, _)
SectionsSteps(sections, n) ==
    IF n = 0 THEN <<>> ELSE SectionsSteps(sections, n - 1) \o SectionSteps(sections[n])

\* the statements of the nested loops of lines 2006-2114, in execution order
Flatten(sections) == SectionsSteps(sections, Len(sections))

\* line 1984
RECURSIVE TotalItems(_, _)
TotalItems(sections, n) ==
    IF n = 0 THEN 0
    ELSE Len(sections[n].materials) + Len(sections[n].assignments) + TotalItems(sections, n - 1)

\* files a course makes the worker fetch
FilesOf(sections) ==
    Cardinality({i \in DOMAIN Flatten(sections) :
                    Flatten(sections)[i].op \in {"file", "ffile", "req", "sub"}})

\* what a course counts for among the items of a run
Weight(sections) == IF FilesOf(sections) = 0 THEN 1 ELSE FilesOf(sections)

NoCourse == <<[materials |-> <<>>, assignments |-> <<>>, missing |-> TRUE]>>

\* lines 1942-1957 and 2126-2130
download_materials(course_id, t) ==
    /\ IF course_id = NoCourse
       THEN BadRequest("Course ID required")
       ELSE LET id == TaskId("download_materials", t)
            IN /\ ReadClock(t)
               /\ StartWorker(id, MaterialsRecord,
                      [NewWorker("download_materials", id) EXCEPT
                          !.weight = Weight(course_id),
                          !.course_id = course_id])
    /\ UNCHANGED <<lectures_cache, courses_data, catalog, disk, requests>>

\* lines 1960-2004: the course content is parsed
download_materials_task_start(w, outcome) ==
    LET id == workers[w].task_id
        sections == workers[w].course_id
    IN
    /\ workers[w].kind = "download_materials" /\ workers[w].pc = "start"
    /\ \/ \* lines 1977-1979 raise KeyError('message'): lines 2122-2124
          /\ outcome = "error"
          /\ task_status' = TaskError(task_status, id)
          /\ Goto(w, "done")
       \/ /\ outcome = "parsed"
          /\ task_status' = AppendMsg(
                 SetField(task_status, id, "total", TotalItems(sections, Len(sections))),
                 id, "Found items to process")
          /\ workers' = [workers EXCEPT ![w].pc = "walk",
                                        ![w].todo = Flatten(sections),
                                        ![w].total_items = TotalItems(sections, Len(sections)),
                                        ![w].processed_count = 0]
    /\ UNCHANGED <<now, lectures_cache, courses_data, catalog, disk, requests, response, hist>>

\* task_status[id][k] += 1
Incr(ts, id, k) == SetField(ts, id, k, ts[id][k] + 1)

\* lines 2012-2014 and 2069-2071
BeginItem(ts, id, name, processed_count, total_items) ==
    SetField(SetField(ts, id, "current_item", name), id, "progress",
             Percent(processed_count, IF total_items = 0 THEN 1 ELSE total_items))

MaterialsOutcomes == {"exists", "ok", "dlfail", "parsed", "exception", "end"}

\* lines 2006-2114: the next statement group of the loops
download_materials_task_step(w, outcome) ==
    LET id == workers[w].task_id
        me == workers[w]
        step == Head(me.todo)
        began == BeginItem(task_status, id, step.name, me.processed_count + 1, me.total_items)
        fetched(ts, doing, failedMsg) ==
            IF outcome = "exists" THEN Incr(ts, id, "completed")
            ELSE IF outcome = "ok" THEN Incr(AppendMsg(ts, id, doing), id, "completed")
            ELSE IF failedMsg THEN AppendMsg(Incr(AppendMsg(ts, id, doing), id, "failed"),
                                             id, "Failed to download")
            ELSE Incr(AppendMsg(ts, id, doing), id, "failed")
        advance(n) == workers' = [workers EXCEPT ![w].todo = Tail(@),
                                                 ![w].processed_count = @ + n]
    IN
    /\ me.kind = "download_materials" /\ me.pc = "walk" /\ me.todo # <<>>
    /\ \/ \* lines 2050-2065
          /\ step.op = "file" /\ outcome \in {"ok", "dlfail"}
          /\ task_status' = fetched(began, "Downloading file", TRUE)
          /\ advance(1)
          /\ ItemFinished(w)
       \/ /\ step.op = "file" /\ outcome = "exists"
          /\ task_status' = Incr(AppendMsg(began, id, "File exists"), id, "completed")
          /\ advance(1)
          /\ ItemFinished(w)
       \/ \* save_dir.mkdir or assign_dir.mkdir raises: lines 2122-2124
          /\ step.op \in {"file", "assign"} /\ outcome = "exception"
          /\ task_status' = TaskError(began, id)
          /\ Goto(w, "done")
          /\ UNCHANGED hist
       \/ \* lines 2018-2021; the folder page carries no description
          /\ step.op = "folder" /\ outcome = "parsed"
          /\ task_status' = AppendMsg(began, id, "Parsing folder")
          /\ advance(1)
          /\ UNCHANGED hist
       \/ \* lines 2039-2048
          /\ step.op = "ffile" /\ outcome \in {"exists", "ok", "dlfail"}
          /\ task_status' = fetched(task_status, "Downloading from folder", FALSE)
          /\ advance(0)
          /\ UNCHANGED hist
       \/ \* lines 2069-2078; the assignment page carries no description
          /\ step.op = "assign" /\ outcome = "parsed"
          /\ task_status' = AppendMsg(began, id, "Processing assignment")
          /\ advance(1)
          /\ UNCHANGED hist
       \/ \* lines 2091-2100
          /\ step.op = "req" /\ outcome \in {"exists", "ok", "dlfail"}
          /\ task_status' = fetched(task_status, "Downloading requirement", FALSE)
          /\ advance(0)
          /\ UNCHANGED hist
       \/ \* lines 2103-2112
          /\ step.op = "sub" /\ outcome \in {"exists", "ok", "dlfail"}
          /\ task_status' = fetched(task_status, "Downloading submission", FALSE)
          /\ advance(0)
          /\ UNCHANGED hist
       \/ \* line 2114
          /\ step.op = "assign_end" /\ outcome = "end"
          /\ task_status' = Incr(task_status, id, "completed")
          /\ advance(0)
          /\ ItemFinished(w)
    /\ UNCHANGED <<now, lectures_cache, courses_data, catalog, disk, requests, response>>

\* lines 2116-2120: the end of the walk, and the hierarchy listing
download_materials_task_finish(w) ==
    LET id == workers[w].task_id IN
    /\ workers[w].kind = "download_materials" /\ workers[w].pc = "walk"
    /\ workers[w].todo = <<>>
    /\ task_status' = AppendMsg(SetField(task_status, id, "status", "completed"),
                                id, "Download materials task completed")
    /\ Goto(w, "done")
    /\ update_hierarchy_file(w)
    /\ UNCHANGED <<now, lectures_cache, courses_data, catalog, disk, requests, response>>

\* ------------------------------------------------ control endpoints
\* one more control request has been served (observation only)
Served == requests' = requests + 1

\* items of the list the worker has not taken up (observation only)
Unstarted(w) ==
    IF workers[w].kind # "download" \/ workers[w].pc = "done" THEN 0
    ELSE Len(workers[w].lecture_ids) - workers[w].idx
         - (IF workers[w].pc \in InFlightPcs THEN 1 ELSE 0)

NoteCancel(id) ==
    hist' = [w \in DOMAIN hist |->
                IF workers[w].task_id = id /\ task_status[id]["status"] = "running"
                   /\ ~hist[w].cancelled
                THEN [hist[w] EXCEPT !.cancelled = TRUE, !.unstarted = Unstarted(w),
                                     !.cancelledPaused = Get(task_status[id], "paused", FALSE)]
                ELSE hist[w]]

NotePause(id) ==
    hist' = [w \in DOMAIN hist |->
                IF workers[w].task_id = id
                THEN [hist[w] EXCEPT !.pausedAt = task_status[id]["completed"],
                                     !.atBoundary = workers[w].pc \notin InFlightPcs]
                ELSE hist[w]]

NoteResume(id) ==
    hist' = [w \in DOMAIN hist |->
                IF workers[w].task_id = id
                THEN [hist[w] EXCEPT
                         !.pausedAt = -1, !.atBoundary = FALSE,
                         !.resumed = @ \/ (hist[w].pausedAt >= 0 /\ hist[w].atBoundary)]
                ELSE hist[w]]

\* GET /api/task/<task_id>
get_task_status(id) ==
    /\ Served
    /\ IF id \notin DOMAIN task_status
       THEN response' = Reply(404, "Task not found")
       ELSE response' = Reply(200, "")
    /\ UNCHANGED <<now, task_status, lectures_cache, courses_data, catalog, disk, workers, hist>>

\* pause_task without the state test of lines 786-787 (a mutation of it)
pause_task_unchecked(id) ==
    /\ Served
    /\ IF id \notin DOMAIN task_status
       THEN /\ response' = Reply(404, "Task not found")
            /\ UNCHANGED <<task_status, hist>>
       ELSE /\ task_status' = AppendMsg(SetField(task_status, id, "paused", TRUE),
                                        id, "Task paused by user")
            /\ response' = Reply(200, "Task paused")
            /\ NotePause(id)
    /\ UNCHANGED <<now, lectures_cache, courses_data, catalog, disk, workers>>

\* POST /api/task/<task_id>/pause
pause_task(id) ==
    /\ Served
    /\ IF id \notin DOMAIN task_status
       THEN /\ response' = Reply(404, "Task not found")
            /\ UNCHANGED <<task_status, hist>>
       ELSE IF task_status[id]["status"] # "running"
       THEN /\ response' = Reply(400, "Task is not running")
            /\ UNCHANGED <<task_status, hist>>
       ELSE /\ task_status' = AppendMsg(SetField(task_status, id, "paused", TRUE),
                                        id, "Task paused by user")
            /\ response' = Reply(200, "Task paused")
            /\ NotePause(id)
    /\ UNCHANGED <<now, lectures_cache, courses_data, catalog, disk, workers>>

\* POST /api/task/<task_id>/resume
resume_task(id) ==
    /\ Served
    /\ IF id \notin DOMAIN task_status
       THEN /\ response' = Reply(404, "Task not found")
            /\ UNCHANGED <<task_status, hist>>
       ELSE IF task_status[id]["status"] # "running"
       THEN /\ response' = Reply(400, "Task is not running")
            /\ UNCHANGED <<task_status, hist>>
       ELSE /\ task_status' = AppendMsg(SetField(task_status, id, "paused", FALSE),
                                        id, "Task resumed by user")
            /\ response' = Reply(200, "Task resumed")
            /\ NoteResume(id)
    /\ UNCHANGED <<now, lectures_cache, courses_data, catalog, disk, workers>>

\* cancel_task that also rewinds the progress figure (a mutation of it)
cancel_task_resetting(id) ==
    /\ Served
    /\ IF id \notin DOMAIN task_status
       THEN /\ response' = Reply(404, "Task not found")
            /\ UNCHANGED <<task_status, hist>>
       ELSE /\ task_status' = AppendMsg(
                   SetField(SetField(SetField(SetField(task_status, id, "stopped", TRUE),
                                              id, "paused", FALSE),
                                     id, "status", "cancelled"),
                            id, "progress", 0),
                   id, "Task cancelled by user")
            /\ response' = Reply(200, "Task cancelled")
            /\ NoteCancel(id)
    /\ UNCHANGED <<now, lectures_cache, courses_data, catalog, disk, workers>>

\* POST /api/task/<task_id>/cancel
cancel_task(id) ==
    /\ Served
    /\ IF id \notin DOMAIN task_status
       THEN /\ response' = Reply(404, "Task not found")
            /\ UNCHANGED <<task_status, hist>>
       ELSE /\ task_status' = AppendMsg(
                   SetField(SetField(SetField(task_status, id, "stopped", TRUE),
                                     id, "paused", FALSE),
                            id, "status", "cancelled"),
                   id, "Task cancelled by user")
            /\ response' = Reply(200, "Task cancelled")
            /\ NoteCancel(id)
    /\ UNCHANGED <<now, lectures_cache, courses_data, catalog, disk, workers>>

\* a control request names a job of the registry or an id it never held
UnknownId == TaskId("download", MaxClock + 1)
Targets == (DOMAIN task_status) \cup {UnknownId}

\* ------------------------------------------------------------------ Next
Outcomes == {"notfound", "nourl", "ok", "dlfail", "exception"}

\* jobs started and control requests served so far
Load == Len(workers) + requests

\* the bounds of a run
Bounds(jobs, clock, items, load) ==
    [jobs |-> jobs, clock |-> clock, items |-> items, load |-> load]

\* a run within the bounds b has room for one more job of n items
CanStart(n, b) == /\ Len(workers) < b.jobs
                  /\ Used + n <= b.items
                  /\ Load < b.load

\* a run within the bounds b has room for one more control request
CanServe(b) == Load < b.load

\* the requests the application serves and the steps of its threads
Step(b) ==
    \/ \E ids \in SeqsUpTo(ItemIds, b.items), lp \in BOOLEAN, t \in 0..b.clock :
           CanStart(Len(ids), b) /\ download_lectures(ids, lp, t)
    \/ \E it \in SingleItems, t \in 0..b.clock :
           CanStart(1, b) /\ download_single_item(it[1], it[2], t)
    \/ \E c \in Courses \cup {NoCourse}, t \in 0..b.clock :
           CanStart(Weight(c), b) /\ download_materials(c, t)
    \/ \E w \in DOMAIN workers : download_task_start(w)
    \/ \E w \in DOMAIN workers : download_task_loop(w)
    \/ \E w \in DOMAIN workers, o \in Outcomes : download_task_item(w, o)
    \/ \E w \in DOMAIN workers : download_task_completed(w)
    \/ \E w \in DOMAIN workers : download_task_failed(w)
    \/ \E w \in DOMAIN workers : download_task_finish(w)
    \/ \E w \in DOMAIN workers, o \in SingleOutcomes : download_single_task(w, o)
    \/ \E w \in DOMAIN workers, o \in {"error", "parsed"} : download_materials_task_start(w, o)
    \/ \E w \in DOMAIN workers, o \in MaterialsOutcomes : download_materials_task_step(w, o)
    \/ \E w \in DOMAIN workers : download_materials_task_finish(w)
    \/ \E id \in Targets : CanServe(b) /\ get_task_status(id)
    \/ \E id \in Targets : CanServe(b) /\ pause_task(id)
    \/ \E id \in Targets : CanServe(b) /\ resume_task(id)
    \/ \E id \in Targets : CanServe(b) /\ cancel_task(id)

Next == Step(Bounds(MaxWorkers, MaxClock, MaxItems, MaxLoad))

Spec == Init /\ [][Next]_vars

\* the runs of a single job
OneNext == Step(Bounds(OneWorker, OneClock, OneItem, OneLoad))

OneSpec == Init /\ [][OneNext]_vars

\* the batch endpoint, its worker and the control endpoints alone
BatchStep(b) ==
    \/ \E ids \in SeqsUpTo(ItemIds, b.items), lp \in BOOLEAN, t \in 0..b.clock :
           CanStart(Len(ids), b) /\ download_lectures(ids, lp, t)
    \/ \E w \in DOMAIN workers : download_task_start(w)
    \/ \E w \in DOMAIN workers : download_task_loop(w)
    \/ \E w \in DOMAIN workers, o \in Outcomes : download_task_item(w, o)
    \/ \E w \in DOMAIN workers : download_task_completed(w)
    \/ \E w \in DOMAIN workers : download_task_failed(w)
    \/ \E w \in DOMAIN workers : download_task_finish(w)
    \/ \E id \in Targets : CanServe(b) /\ get_task_status(id)
    \/ \E id \in Targets : CanServe(b) /\ pause_task(id)
    \/ \E id \in Targets : CanServe(b) /\ resume_task(id)
    \/ \E id \in Targets : CanServe(b) /\ cancel_task(id)

BatchNext == BatchStep(Bounds(BatchWorkers, BatchClock, BatchItems, BatchLoad))

BatchSpec == Init /\ [][BatchNext]_vars

\* ------------------------------------------- videos merged into sections
\* A string is a sequence of tokens; the capitalised words have a lower-case
\* form, " " and ":" are the tokens that are not alphanumeric, and "juchar"
\* stands for the Korean suffix of a week number.
Lower(s) ==
    [i \in DOMAIN s |->
        CASE s[i] = "Week" -> "week"
          [] s[i] = "General" -> "general"
          [] s[i] = "Extra" -> "extra"
          [] s[i] = "Intro" -> "intro"
          [] s[i] = "Data" -> "data"
          [] OTHER -> s[i]]

IsAlnum(t) == t \notin {" ", ":"}

\* normalize(s): ''.join(e for e in s if e.isalnum()).lower()
Normalize(s) == Lower(SelectSeq(s, IsAlnum))

\* t.replace('week', '')
NotWeek(t) == t # "week"

RemoveWeek(s) == SelectSeq(s, NotWeek)

\* s.strip()
RECURSIVE Strip(_)
Strip(s) ==
    IF s = <<>> THEN s
    ELSE IF Head(s) = " " THEN Strip(Tail(s))
    ELSE IF s[Len(s)] = " " THEN Strip(SubSeq(s, 1, Len(s) - 1))
    ELSE s

\* s in t
Contains(t, s) ==
    \E i \in 0..(Len(t) - Len(s)) : SubSeq(t, i + 1, i + Len(s)) = s

\* the heuristic of lines 310-314 and 503-507
Matches(week, sec_title) ==
    \/ Contains(sec_title, week)
    \/ Contains(Normalize(sec_title), Normalize(week))
    \/ Contains(sec_title, Strip(RemoveWeek(Lower(week))))

\* remaining_lectures with the found videos left in it (a mutation of the
\* removal)
Unmatched_keeping(remaining, found) == remaining

\* remaining_lectures after the remove calls of lines 316-318 and 509-511
Unmatched(remaining, found) ==
    SelectSeq(remaining, LAMBDA l : \A k \in DOMAIN found : found[k] # l)

\* the dict a video is listed as
Video(v) == [id |-> v.lecture_id, week |-> v.week]

Videos(ls) == [k \in DOMAIN ls |-> Video(ls[k])]

\* lines 302-333 and 495-526: the loop over the declared sections; the
\* materials and assignments of a section are copied as they are
RECURSIVE MergeSections(_, _)
MergeSections(sections, remaining_lectures) ==
    IF sections = <<>>
    THEN [course_sections |-> <<>>, remaining_lectures |-> remaining_lectures]
    ELSE LET sec_title == Head(sections).title
             found_videos == SelectSeq(remaining_lectures,
                                       LAMBDA l : Matches(l.week, sec_title))
             rest == MergeSections(Tail(sections),
                                   Unmatched(remaining_lectures, found_videos))
         IN [course_sections |->
                 <<[title |-> sec_title, videos |-> Videos(found_videos)]>>
                     \o rest.course_sections,
             remaining_lectures |-> rest.remaining_lectures]

\* lines 292-293 and 485-486: the sections the loop goes over
SectionsRaw(lectures, declared) ==
    IF declared = <<>> /\ lectures # <<>>
    THEN <<[title |-> <<"General">>]>>
    ELSE declared

\* the merge with the section 'Other Videos' added whether or not a lecture
\* is left for it (a mutation of it)
CourseSections_other_always(lectures, declared) ==
    LET merged == MergeSections(SectionsRaw(lectures, declared), lectures)
    IN merged.course_sections
           \o <<[title |-> <<"Other Videos">>,
                 videos |-> Videos(merged.remaining_lectures)]>>

\* lines 292-347 and 485-540
CourseSections(lectures, declared) ==
    LET merged == MergeSections(SectionsRaw(lectures, declared), lectures)
    IN merged.course_sections
           \o (IF merged.remaining_lectures # <<>>
               THEN <<[title |-> <<"Other Videos">>,
                       videos |-> Videos(merged.remaining_lectures)]>>
               ELSE <<>>)

\* the weeks parse_lecture_list may give a lecture, and the titles
\* parse_course_content may give a section
Weeks == {<<"1">>, <<"week", "2">>, <<"General">>}

Titles == {<<"Week", " ", "1">>, <<"1", " ", "2">>, <<"Week", "2">>}

\* the lecture ids of a course are numbered in page order (scraper.py 277)
LectureLists ==
    {[k \in DOMAIN ws |-> [lecture_id |-> k, week |-> ws[k]]] :
         ws \in SeqsUpTo(Weeks, MaxLectures)}

SectionLists ==
    {[k \in DOMAIN ts |-> [title |-> ts[k]]] : ts \in SeqsUpTo(Titles, MaxSections)}

\* a course with the week labels "1<juchar>", "2<juchar>" and "Extra" and the
\* declared sections "1<juchar>: Intro" and "2<juchar>: Data"
ScenarioLectures ==
    <<[lecture_id |-> 1, week |-> <<"1", "juchar">>],
      [lecture_id |-> 2, week |-> <<"2", "juchar">>],
      [lecture_id |-> 3, week |-> <<"Extra">>]>>

ScenarioSections ==
    <<[title |-> <<"1", "juchar", ":", " ", "Intro">>],
      [title |-> <<"2", "juchar", ":", " ", "Data">>]>>

\* the scraper has returned the lectures and the declared sections of a course
MergeInit ==
    /\ now = 0
    /\ task_status = <<>>
    /\ lectures_cache = {"L1"}
    /\ workers = <<>>
    /\ requests = 0
    /\ response = Reply(0, "")
    /\ hist = <<>>
    /\ catalog = NoCatalog
    /\ disk = NoDisk
    /\ courses_data \in {[NoCourseView EXCEPT !.pc = "parsed", !.lectures = ls,
                                              !.sections_raw = ss] :
                             ls \in LectureLists \cup {ScenarioLectures},
                             ss \in SectionLists \cup {ScenarioSections}}

\* GET /api/courses, for one course
fetch_all_courses ==
    /\ courses_data.pc = "parsed"
    /\ courses_data' = [courses_data EXCEPT
           !.pc = "fetch_all_courses",
           !.course_sections = CourseSections(courses_data.lectures, courses_data.sections_raw)]
    /\ response' = Reply(200, "")
    /\ UNCHANGED <<now, task_status, lectures_cache, workers, requests, hist, catalog, disk>>

\* POST /api/course/<course_id>/refresh
refresh_course ==
    /\ courses_data.pc = "parsed"
    /\ courses_data' = [courses_data EXCEPT
           !.pc = "refresh_course",
           !.course_sections = CourseSections(courses_data.lectures, courses_data.sections_raw)]
    /\ response' = Reply(200, "")
    /\ UNCHANGED <<now, task_status, lectures_cache, workers, requests, hist, catalog, disk>>

MergeNext == fetch_all_courses \/ refresh_course

MergeSpec == MergeInit /\ [][MergeNext]_vars

\* ------------------------------------------- GET /api/courses and its cache
\* line 228: the age in seconds below which the cache file is used
TTL == 3600

\* the cookies of the sessions that may log in
Identities == {"A", "B"}

\* the courses parse_course_list returns
CourseIds == {"c1", "c2"}

\* lines 168-170: the selection asked for, a (year, semester) or discover=true
Selections == {"discover", "2024-10", "2024-20", "2024-21"}

\* lines 175-220: all_courses, the courses parse_course_list returns for the
\* selection; discovery collects those of every semester that has any
Listing(selection) ==
    CASE selection = "2024-10" -> {"c1"}
      [] selection = "2024-20" -> {"c2"}
      [] selection = "2024-21" -> {}
      [] selection = "discover" -> {"c1", "c2"}

\* the outcome of parse_single_course for each course
CourseOutcomes == [CourseIds -> {"ok", "raise"}]

\* what the scraper finds on the pages of a course: it depends on the
\* session that asks
Scraped(course, cookies) ==
    [sections_raw |-> <<[title |-> <<"Week", " ", "1">>, owner |-> cookies]>>,
     lectures |-> <<[lecture_id |-> course, week |-> <<"1">>]>>]

\* lines 257-278: the result of one course of the fan-out
parse_single_course(course, cookies, outcome) ==
    IF outcome = "raise"
    THEN [course |-> course, sections_raw |-> <<>>, lectures |-> <<>>]
    ELSE [course |-> course,
          sections_raw |-> Scraped(course, cookies).sections_raw,
          lectures |-> Scraped(course, cookies).lectures]

\* lines 286-361: the entry of one course in courses_data
CourseEntry(result, cookies) ==
    [course_id |-> result.course, owner |-> cookies,
     lecture_count |-> Len(result.lectures),
     sections |-> CourseSections(result.lectures, result.sections_raw)]

\* the fan-out in which one failing course makes every course come back
\* empty (a mutation of it)
CoursesData_failing_together(courses, cookies, outcomes) ==
    [c \in courses |->
        CourseEntry(parse_single_course(c, cookies,
                        IF \E d \in courses : outcomes[d] = "raise" THEN "raise" ELSE "ok"),
                    cookies)]

\* the fan-out that keeps the entry of one future only (a mutation of it)
CoursesData_of_one_future(courses, cookies, outcomes) ==
    [c \in (IF courses = {} THEN {} ELSE {CHOOSE c \in courses : TRUE}) |->
        CourseEntry(parse_single_course(c, cookies, outcomes[c]), cookies)]

\* lines 281-361: courses_data, by course (the order is that of completion)
CoursesData(courses, cookies, outcomes) ==
    [c \in courses |->
        CourseEntry(parse_single_course(c, cookies, outcomes[c]), cookies)]

\* the lecture ids of courses_data
AllLectures(courses, outcomes) == {c \in courses : outcomes[c] = "ok"}

\* lines 385-393: the answer of a call that parsed the courses
ParsedReply(data) ==
    [success |-> TRUE, courses |-> data, total_courses |-> Cardinality(DOMAIN data)]

\* the answer from the cache that leaves the sections of the courses out
\* (a mutation of it)
CachedReply_without_sections(data) ==
    [success |-> TRUE,
     courses |-> [c \in DOMAIN data |-> [data[c] EXCEPT !.sections = <<>>]],
     total_courses |-> Cardinality(DOMAIN data),
     from_cache |-> TRUE]

\* lines 239-247: the answer of a call served from the cache file
CachedReply(data) ==
    [success |-> TRUE, courses |-> data, total_courses |-> Cardinality(DOMAIN data),
     from_cache |-> TRUE]

\* lines 370-378: the pickled dict; populated_by is the answer of the call
\* that wrote it (observation only)
Entry(cookies, t, data, reply) ==
    [state |-> "saved", auth_cookies |-> cookies, mtime |-> t, courses_data |-> data,
     populated_by |-> reply]

\* lines 226-228: the file exists and is younger than the TTL
Fresh(file, t) == file.state # "absent" /\ t - file.mtime < TTL

\* the test for a hit without the comparison of the cookies (a mutation
\* of it)
CacheHit_any_cookies(file, cookies, t, force_refresh) ==
    /\ ~force_refresh
    /\ Fresh(file, t)
    /\ file.state = "saved"

\* lines 226-233: the call is answered from the cache file
CacheHit(file, cookies, t, force_refresh) ==
    /\ ~force_refresh
    /\ Fresh(file, t)
    /\ file.state = "saved"
    /\ file.auth_cookies = cookies

\* the call that does not write the cache file when it answers 200 after
\* parsing (a mutation of it)
Saved_never(file, entry, t, fault) == file

\* lines 369-383: the cache file after the save, whose failure is printed
\* and not raised
Saved(file, entry, t, fault) == IF fault = "save_error" THEN file ELSE entry

CatalogFaults == {"none", "error", "save_error"}

\* the bookkeeping of a call (observation only, but for sent)
Called(sent, opened, passed_over, reply) ==
    [catalog EXCEPT !.sent = sent, !.opened = opened, !.passed_over = passed_over,
                    !.reply = reply, !.calls = @ + 1]

\* lines 151-395: GET /api/courses for a selection
get_courses(selection, force_refresh, outcomes, fault) ==
    LET cookies == catalog.auth_session
        file == catalog.cache_file
        opened == ~force_refresh /\ Fresh(file, now)
        courses == Listing(selection)
        passed == IF opened /\ file.state = "saved" THEN file.auth_cookies ELSE "none"
        data == CoursesData(courses, cookies, outcomes)
        reply == ParsedReply(data)
    IN
    /\ IF cookies = "none"
       THEN \* lines 160-162
            /\ fault = "none"
            /\ response' = Reply(401, "Please login first")
            /\ catalog' = Called({}, FALSE, "none", [success |-> FALSE])
            /\ UNCHANGED lectures_cache
       ELSE IF fault = "error"
       THEN \* a statement outside parse_single_course raises: lines 394-395
            /\ response' = Reply(500, "Error fetching courses")
            /\ catalog' = Called({"parse_course_list"}, FALSE, "none", [success |-> FALSE])
            /\ UNCHANGED lectures_cache
       ELSE IF CacheHit(file, cookies, now, force_refresh)
       THEN \* lines 234-247, after the course lists of lines 175-220
            /\ fault = "none"
            /\ response' = Reply(200, "")
            /\ catalog' = Called({"parse_course_list"}, TRUE, "none",
                                 CachedReply(file.courses_data))
            /\ lectures_cache' = {c \in DOMAIN file.courses_data :
                                      file.courses_data[c].lecture_count > 0}
       ELSE IF courses = {}
       THEN \* line 281: ThreadPoolExecutor(max_workers=0) raises ValueError,
            \* lines 394-395 answer it
            /\ fault = "none"
            /\ response' = Reply(500, "Error fetching courses")
            /\ catalog' = Called({"parse_course_list"}, opened, passed, [success |-> FALSE])
            /\ UNCHANGED lectures_cache
       ELSE \* lines 251-393
            /\ response' = Reply(200, "")
            /\ catalog' = [Called({"parse_course_list", "parse_course_content",
                                   "parse_lecture_list"},
                                  opened, passed, reply)
                              EXCEPT !.cache_file =
                                  Saved(file, Entry(cookies, now, data, reply), now, fault)]
            /\ lectures_cache' = AllLectures(courses, outcomes)
    /\ UNCHANGED <<now, task_status, workers, requests, hist, courses_data, disk>>

\* GET /api/courses?discover=true
api_courses(force_refresh, outcomes, fault) ==
    get_courses("discover", force_refresh, outcomes, fault)

\* lines 87-125: POST /api/login that succeeds
login(cookies) ==
    /\ catalog' = [catalog EXCEPT !.auth_session = cookies]
    /\ response' = Reply(200, "Login successful")
    /\ UNCHANGED <<now, task_status, lectures_cache, workers, requests, hist, courses_data, disk>>

\* the wall clock is seen d seconds later
Tick(d) ==
    /\ now' = now + d
    /\ catalog' = [catalog EXCEPT !.ticks = @ + 1]
    /\ UNCHANGED <<task_status, lectures_cache, workers, requests, response, hist, courses_data, disk>>

CatalogNext ==
    \/ \E f \in BOOLEAN, o \in CourseOutcomes, fault \in CatalogFaults :
           catalog.calls < MaxCalls /\ api_courses(f, o, fault)
    \/ \E i \in Identities : catalog.auth_session # i /\ login(i)
    \/ \E d \in {1, TTL - 1} : catalog.ticks < MaxTicks /\ Tick(d)

CatalogSpec == Init /\ [][CatalogNext]_vars

\* the calls of /api/courses over every selection, none of which meets a
\* fault other than the parsing of a course
SelectionNext ==
    \/ \E s \in Selections, f \in BOOLEAN, o \in CourseOutcomes :
           catalog.calls < SelectionCalls /\ get_courses(s, f, o, "none")
    \/ \E i \in Identities : catalog.auth_session # i /\ login(i)
    \/ catalog.ticks < SelectionTicks /\ Tick(1)

SelectionSpec == Init /\ [][SelectionNext]_vars

\* ------------------------------------------- migrate_downloads
\* the directories at the top of the download directory
OldDirs == {"2023-1-Course_A", "notes"}

\* the directories of an old directory in which files lie: itself and one
\* directory below it
RelPaths == {".", "w1"}

FileNames == {"a.mp4", "README", ".keep", "a_metadata.json"}

\* utils.py 34-60
parse_old_directory_name(dir_name) ==
    IF dir_name = "2023-1-Course_A"
    THEN [ok |-> TRUE, year |-> "2023", semester |-> "1", course_name |-> "Course_A"]
    ELSE [ok |-> FALSE]

\* utils.py 144-161
has_extension(filename) == filename \in {"a.mp4", ".keep", "a_metadata.json"}

\* line 103: file.startswith('.')
Hidden(filename) == filename = ".keep"

\* line 119: file.endswith('.json') and 'metadata' in file.lower()
Metadata(filename) == filename = "a_metadata.json"

\* lines 86-91: the week of the files of a directory
WeekName(rel_path) == IF rel_path = "." THEN "General" ELSE rel_path

OldFile(d, rel, n) == [loc |-> "old", dir |-> d, week |-> rel, name |-> n, copy |-> 0, size |-> 1]

\* line 96, utils.py 83-87: year / semester / course / week / name, and
\* name_<copy> when copy is not 0
NewFile(course, week, n, k, size) ==
    [loc |-> "new", dir |-> course, week |-> week, name |-> n, copy |-> k, size |-> size]

Dir(loc, d, week) == [loc |-> loc, dir |-> d, week |-> week]

\* the directories in which the files lie
DirsOf(files) ==
    UNION {IF f.loc = "old"
           THEN {Dir("old", f.dir, "."), Dir("old", f.dir, f.week)}
           ELSE {Dir("new", f.dir, f.week)} : f \in files}

\* the directory at the top of the download directory above a file or a
\* directory
Top(x) == IF x.loc = "new" THEN "2023" ELSE x.dir

\* line 45
TopLevelDirs(dirs) == {Top(d) : d \in dirs}

\* str.isdigit of the name of a top-level directory
IsDigit(name) == name = "2023"

\* the new path of an old file
Target(f) ==
    NewFile(parse_old_directory_name(f.dir).course_name, WeekName(f.week), f.name, 0, f.size)

SamePath(f, g) ==
    f.loc = g.loc /\ f.dir = g.dir /\ f.week = g.week /\ f.name = g.name /\ f.copy = g.copy

PathExists(files, f) == \E g \in files : SamePath(f, g)

\* utils.py 97-102: the first name_<counter> that is free
RECURSIVE FreeCopy(_, _, _)
FreeCopy(files, f, k) ==
    IF PathExists(files, [f EXCEPT !.copy = k]) THEN FreeCopy(files, f, k + 1) ELSE k

\* utils.py 63-112: the disk after relocate_file_to_new_structure, and
\* whether it returned a path
relocate_file_to_new_structure(d, f, fault) ==
    LET t == Target(f)
        made == [d EXCEPT !.dirs = @ \cup {Dir("new", t.dir, t.week)}]
    IN IF fault = "raise"
       THEN [disk |-> made, ok |-> FALSE]
       ELSE IF PathExists(d.files, t) /\ \E g \in d.files : SamePath(t, g) /\ g.size = f.size
       THEN [disk |-> [made EXCEPT !.files = @ \ {f}], ok |-> TRUE]
       ELSE LET k == IF PathExists(d.files, t) THEN FreeCopy(d.files, t, 1) ELSE 0
            IN [disk |-> [made EXCEPT !.files = (@ \ {f}) \cup {[t EXCEPT !.copy = k]}],
                ok |-> TRUE]

Count(d, key) == [d EXCEPT !.stats[key] = @ + 1]

\* the removal of a file without extension that takes place in a dry run
\* as well (a mutation of it)
RemoveNoExt_in_dry_run(d, f, fault) ==
    IF fault = "raise"
    THEN Count(Count(d, "removed_no_ext"), "errors")
    ELSE [Count(d, "removed_no_ext") EXCEPT !.files = @ \ {f}]

\* lines 107-116
RemoveNoExt(d, f, fault) ==
    IF d.dry_run
    THEN Count(d, "removed_no_ext")
    ELSE IF fault = "raise"
    THEN Count(Count(d, "removed_no_ext"), "errors")
    ELSE [Count(d, "removed_no_ext") EXCEPT !.files = @ \ {f}]

\* lines 99-136: one file of the walk
ProcessFile(d, f, fault) ==
    IF Hidden(f.name) THEN d
    ELSE IF ~has_extension(f.name) THEN RemoveNoExt(d, f, fault)
    ELSE IF Metadata(f.name) THEN d
    ELSE IF ~d.dry_run
    THEN LET r == relocate_file_to_new_structure(d, f, fault)
         IN Count(r.disk, IF r.ok THEN "migrated" ELSE "errors")
    ELSE Count(d, "migrated")

\* lines 139-156: the disk after the directories of removed are removed
\* with all that is in them
RemoveTrees(d, removed) ==
    [d EXCEPT !.files = {f \in @ : Top(f) \notin removed},
              !.dirs = {x \in @ : Top(x) \notin removed}]

DiskFrame ==
    UNCHANGED <<now, task_status, lectures_cache, workers, requests, response, hist,
                courses_data, catalog>>

\* lines 21-78: the call of migrate_downloads up to the walk;
\* is_new_structure depends on the order of iterdir when there are more
\* than three top-level directories
migrate_downloads(dry_run, is_new_structure) ==
    /\ disk.pc = "idle"
    /\ LET tops == TopLevelDirs(disk.dirs)
           years == {t \in tops : IsDigit(t)}
           old_dirs == IF is_new_structure THEN tops \ years ELSE tops
           parsed == {t \in old_dirs : parse_old_directory_name(t).ok}
       IN /\ is_new_structure => years # {}
          /\ ~is_new_structure => (years = {} \/ tops # years)
          /\ disk' = IF ~disk.exists
                     THEN [disk EXCEPT !.pc = "done", !.dry_run = dry_run]
                     ELSE [disk EXCEPT !.pc = "walk", !.dry_run = dry_run,
                                       !.old_dirs = old_dirs,
                                       !.todo = {f \in disk.files : Top(f) \in parsed},
                                       !.stats.skipped = Cardinality(old_dirs \ parsed)]
    /\ DiskFrame

\* lines 81-136: the next file of os.walk
migrate_file(f, fault) ==
    /\ disk.pc = "walk"
    /\ f \in disk.todo
    /\ fault = "raise" => (~disk.dry_run /\ ~Hidden(f.name) /\ ~Metadata(f.name))
    /\ disk' = [ProcessFile(disk, f, fault) EXCEPT !.todo = @ \ {f}]
    /\ DiskFrame

\* lines 138-169: the removal of the old directories, of which those of
\* kept cannot be removed
migrate_cleanup(kept) ==
    /\ disk.pc = "walk"
    /\ disk.todo = {}
    /\ kept \subseteq disk.old_dirs
    /\ disk.dry_run => kept = disk.old_dirs
    /\ disk' = [(IF disk.dry_run THEN disk ELSE RemoveTrees(disk, disk.old_dirs \ kept))
                   EXCEPT !.pc = "done"]
    /\ DiskFrame

\* the files that may lie under the old and under the new directories
OldCandidates == {OldFile(d, rel, n) : d \in OldDirs, rel \in RelPaths, n \in FileNames}

NewCandidates ==
    {NewFile("Course_A", WeekName(rel), "a.mp4", 0, size) : rel \in RelPaths, size \in {1, 2}}

Disks ==
    {[NoDisk EXCEPT !.exists = TRUE, !.files = olds \cup news,
                    !.dirs = DirsOf(olds \cup news)] :
        olds \in {o \in SUBSET OldCandidates : Cardinality(o) <= MaxFiles},
        news \in {m \in SUBSET NewCandidates :
                     /\ Cardinality(m) <= MaxNew
                     /\ \A f, g \in m : SamePath(f, g) => f = g}}

MigrateInit ==
    /\ now = 0
    /\ task_status = <<>>
    /\ lectures_cache = {"L1"}
    /\ workers = <<>>
    /\ requests = 0
    /\ response = Reply(0, "")
    /\ hist = <<>>
    /\ courses_data = NoCourseView
    /\ catalog = NoCatalog
    /\ disk \in Disks \cup {NoDisk}

MigrateStep ==
    \/ \E dry_run, is_new_structure \in BOOLEAN : migrate_downloads(dry_run, is_new_structure)
    \/ \E f \in disk.todo, fault \in {"none", "raise"} : migrate_file(f, fault)
    \/ \E kept \in SUBSET disk.old_dirs : migrate_cleanup(kept)

MigrateSpec == MigrateInit /\ [][MigrateStep]_vars

\* ------------------------------------------- the runs of a single job, fair
\* the steps of the thread of a job, of whatever kind
ThreadStep(w) ==
    /\ w \in DOMAIN workers
    /\ \/ download_task_start(w)
       \/ download_task_loop(w)
       \/ \E o \in Outcomes : download_task_item(w, o)
       \/ download_task_completed(w)
       \/ download_task_failed(w)
       \/ download_task_finish(w)
       \/ \E o \in SingleOutcomes : download_single_task(w, o)
       \/ \E o \in {"error", "parsed"} : download_materials_task_start(w, o)
       \/ \E o \in MaterialsOutcomes : download_materials_task_step(w, o)
       \/ download_materials_task_finish(w)

\* each thread that can take a step is given the time to take it
ThreadsFair == \A w \in 1..OneWorker : WF_vars(ThreadStep(w))

FairOneSpec == Init /\ [][OneNext]_vars /\ ThreadsFair

\* ------------------------------------------- the pause / cancel scenario
\* the steps of the thread of a batch job whose every fetch succeeds
WorkerStep(w) ==
    /\ w \in DOMAIN workers
    /\ \/ download_task_loop(w)
       \/ download_task_item(w, "ok")
       \/ download_task_completed(w)
       \/ download_task_failed(w)
       \/ download_task_finish(w)

\* batch jobs over lectures of the cache that are paused and cancelled
CancelNext ==
    \/ \E n \in 1..CancelItems :
           /\ Len(workers) < CancelWorkers
           /\ Used + n <= CancelItems
           /\ Load < CancelLoad
           /\ download_lectures(Rep("L1", n), FALSE, 0)
    \/ \E w \in 1..CancelWorkers : WorkerStep(w)
    \/ \E id \in DOMAIN task_status : Load < CancelLoad /\ pause_task(id)
    \/ \E id \in DOMAIN task_status : Load < CancelLoad /\ cancel_task(id)

\* each thread that can take a step is given the time to take it
CancelFair == \A w \in 1..CancelWorkers : WF_vars(WorkerStep(w))

CancelSpec == Init /\ [][CancelNext]_vars /\ CancelFair

\* ------------------------------------------- the lecture table under a batch job
\* lecture_id = f"{course_id}_{lecture_counter}" (scraper.py 277): the
\* course of a lecture id
CourseOf(lecture_id) == IF lecture_id = "L1" THEN "c1" ELSE "c9"

\* the lecture ids parse_lecture_list may return for a course: those of the
\* course, as many as its page lists at the time
Parsed(course) == SUBSET {i \in ItemIds : CourseOf(i) = course}

\* lines 397-436: POST /api/course, the legacy endpoint, for the URL of a
\* course
fetch_course(course, lectures) ==
    /\ lectures \in Parsed(course)
    /\ lectures_cache' = lectures
    /\ response' = Reply(200, "")
    /\ UNCHANGED <<now, task_status, workers, requests, hist, courses_data, catalog, disk>>

\* lines 476-479 of refresh_course, whose merge is the action refresh_course
refresh_course_lectures(course, lectures) ==
    /\ lectures \in Parsed(course)
    /\ lectures_cache' = {l \in lectures_cache : CourseOf(l) # course} \cup lectures
    /\ response' = Reply(200, "")
    /\ UNCHANGED <<now, task_status, workers, requests, hist, courses_data, catalog, disk>>

\* a catalog operation replaces the lecture table
TableStep ==
    \/ \E c \in {"c1", "c9"} : \E ls \in Parsed(c) : fetch_course(c, ls)
    \/ \E c \in {"c1", "c9"} : \E ls \in Parsed(c) : refresh_course_lectures(c, ls)

TableNext == BatchNext \/ TableStep

TableSpec == Init /\ [][TableNext]_vars

\* ------------------------------------------- transfers into the download directory
\* destination paths of lectures and of materials
VideoPaths == {"v1.mp4", "v2.mp4"}
MaterialPaths == {"m1.pdf"}

\* the video URL is a plain file or an HLS playlist
UrlKinds == {"mp4", "m3u8"}

\* a transfer goes through, fails before anything is written (HTTP error
\* status, ffmpeg missing or failing at once), or fails after part of the
\* output has been written (connection lost, ffmpeg exiting non-zero)
TransferFaults == {"none", "refused", "broken"}

\* output_path.exists()
Exists(files, path) == \E f \in files : f.path = path

\* open(path, 'wb') and the chunks written, or ffmpeg's output file
Written(files, path, content) ==
    {f \in files : f.path # path} \cup {[path |-> path, content |-> content]}

\* output_path.unlink()
Unlinked(files, path) == {f \in files : f.path # path}

\* the return value, the files afterwards, and whether a transfer was made
Outcome(ok, files, transferred) == [ok |-> ok, files |-> files, transferred |-> transferred]

\* downloader.py 95-170: no handler removes what ffmpeg has written
download_hls(files, output_path, fault) ==
    CASE fault = "none" -> Outcome(TRUE, Written(files, output_path, "whole"), TRUE)
      [] fault = "refused" -> Outcome(FALSE, files, TRUE)
      [] fault = "broken" -> Outcome(FALSE, Written(files, output_path, "partial"), TRUE)

\* downloader.py 51-93: the except branch removes the partial file
download_video(files, video_url, output_path, fault) ==
    IF Exists(files, output_path) THEN Outcome(TRUE, files, FALSE)
    ELSE IF video_url = "m3u8" THEN download_hls(files, output_path, fault)
    ELSE CASE fault = "none" -> Outcome(TRUE, Written(files, output_path, "whole"), TRUE)
           [] fault = "refused" -> Outcome(FALSE, files, TRUE)
           [] fault = "broken" ->
                Outcome(FALSE, Unlinked(Written(files, output_path, "partial"), output_path), TRUE)

\* scraper.py 557-590: the except branch only reports
download_file(files, path, fault) ==
    CASE fault = "none" -> Outcome(TRUE, Written(files, path, "whole"), TRUE)
      [] fault = "refused" -> Outcome(FALSE, files, TRUE)
      [] fault = "broken" -> Outcome(FALSE, Written(files, path, "partial"), TRUE)

\* app.py 2054-2065: a material whose file exists counts as completed
download_material(files, save_path, fault) ==
    IF Exists(files, save_path) THEN Outcome(TRUE, files, FALSE)
    ELSE download_file(files, save_path, fault)

\* the result of a fetch, as the job sees it
Fetched(path, o) == [path |-> path, ok |-> o.ok, transferred |-> o.transferred]

\* app.py 663: the batch job fetches a lecture
fetch_video(video_url, output_path, fault) ==
    LET o == download_video(disk.files, video_url, output_path, fault)
    IN /\ disk' = [disk EXCEPT !.files = o.files]
       /\ response' = Fetched(output_path, o)
       /\ UNCHANGED <<now, task_status, lectures_cache, workers, requests, hist, courses_data, catalog>>

\* app.py 2050-2065: the materials job fetches a file
fetch_material(save_path, fault) ==
    LET o == download_material(disk.files, save_path, fault)
    IN /\ disk' = [disk EXCEPT !.files = o.files]
       /\ response' = Fetched(save_path, o)
       /\ UNCHANGED <<now, task_status, lectures_cache, workers, requests, hist, courses_data, catalog>>

TransferNext ==
    \/ \E u \in UrlKinds, p \in VideoPaths, x \in TransferFaults : fetch_video(u, p, x)
    \/ \E p \in MaterialPaths, x \in TransferFaults : fetch_material(p, x)

TransferSpec == Init /\ [][TransferNext]_vars

\* ------------------------------------------- the pause / resume scenario
\* batch jobs over lectures of the cache whose every fetch succeeds, paused
\* and resumed but never cancelled
ResumeNext ==
    \/ \E n \in 1..(ResumeItems - 1), t \in 0..MaxClock :
           /\ Len(workers) < MaxWorkers
           /\ Used + n <= ResumeItems
           /\ Load < ResumeLoad
           /\ download_lectures(Rep("L1", n), FALSE, t)
    \/ \E w \in DOMAIN workers : download_task_loop(w)
    \/ \E w \in DOMAIN workers : download_task_item(w, "ok")
    \/ \E w \in DOMAIN workers : download_task_completed(w)
    \/ \E w \in DOMAIN workers : download_task_failed(w)
    \/ \E id \in DOMAIN task_status : Load < ResumeLoad /\ pause_task(id)
    \/ \E id \in DOMAIN task_status : Load < ResumeLoad /\ resume_task(id)

ResumeSpec == Init /\ [][ResumeNext]_vars

\* ------------------------------------------------------------ properties
\* the job state a status string stands for: cancel_task writes 'cancelled'
\* and the worker 'stopped' for the state Stopped
State(r) ==
    CASE r["status"] = "running" -> "Running"
      [] r["status"] = "completed" -> "Completed"
      [] r["status"] = "error" -> "Error"
      [] r["status"] \in {"cancelled", "stopped"} -> "Stopped"

Terminal == {"Completed", "Error", "Stopped"}

\* the per-item map of a record, if it has one
ItemsOf(r) == IF "items" \in DOMAIN r THEN <<r["items"]>> ELSE <<>>

\* the fields of a record that count its items
Counts(r) == <<r["total"], r["completed"], r["failed"], r["progress"], ItemsOf(r)>>

\* the step is a status, pause, resume or cancel request
ControlRequest ==
    \E id \in Targets :
        get_task_status(id) \/ pause_task(id) \/ resume_task(id) \/ cancel_task(id)

\* C1: once the state of a job is terminal (Completed, Error or Stopped), no
\* step of a worker and no pause, resume or cancel request changes it.
C1_TerminalStateNeverChanges ==
    [][Len(workers') = Len(workers) =>
         \A id \in DOMAIN task_status :
             State(task_status[id]) \in Terminal
                 => State(task_status'[id]) = State(task_status[id])]_vars

\* no other job was started under the task id of worker w
Alone(w) == \A v \in DOMAIN workers : v # w => workers[v].task_id # workers[w].task_id

\* C2: the record of a job, of whatever kind, has completed + failed <= total
\* (stated for the jobs that share their task id with no other job).
C2_CountsWithinTotal ==
    \A w \in DOMAIN workers :
        Alone(w) => Rec(w)["completed"] + Rec(w)["failed"] <= Rec(w)["total"]

\* C3: a job in the state Completed that was never cancelled reports
\* completed + failed = total, whatever the outcome of its items was
\* (stated for the jobs that share their task id with no other job).
C3_CompletedCountsAddUp ==
    \A w \in DOMAIN workers :
        (/\ Alone(w)
         /\ State(Rec(w)) = "Completed"
         /\ ~Get(Rec(w), "stopped", FALSE))
            => Rec(w)["completed"] + Rec(w)["failed"] = Rec(w)["total"]

\* C4: a batch job cancelled while Running with an item not yet taken up,
\* and not ended by an error, is in the state Stopped once its worker has
\* exited, with completed + failed < total (stated for the jobs that share
\* their task id with no other job).
C4_CancelledBatchStaysStopped ==
    \A w \in DOMAIN workers :
        (/\ Alone(w)
         /\ workers[w].kind = "download"
         /\ hist[w].cancelled /\ hist[w].unstarted >= 1
         /\ workers[w].pc = "done"
         /\ State(Rec(w)) # "Error")
            => /\ State(Rec(w)) = "Stopped"
               /\ Rec(w)["completed"] + Rec(w)["failed"] < Rec(w)["total"]

\* C5: after a cancel request on a Running job its worker ends at most one
\* more item (stated for the jobs that share their task id with no other
\* job).
C5_OneItemBeyondCancel ==
    \A w \in DOMAIN workers : Alone(w) => hist[w].finishedAfterCancel <= 1

\* C6: from an accepted pause request until the next resume request the
\* completed count of the job grows by no more than the item that was in
\* flight (stated for the jobs that share their task id with no other job).
C6_PausedCountFrozen ==
    \A w \in DOMAIN workers :
        Alone(w) /\ hist[w].pausedAt >= 0
            => Rec(w)["completed"] <= hist[w].pausedAt + 1

\* C7: a batch job that was paused at an item boundary and resumed, all of
\* whose fetches succeed, is Completed with completed = total once the
\* workers of its task id have exited.
C7_ResumedJobCompletes ==
    \A w \in DOMAIN workers :
        (/\ hist[w].resumed
         /\ \A v \in DOMAIN workers :
                workers[v].task_id = workers[w].task_id => workers[v].pc = "done")
            => /\ State(Rec(w)) = "Completed"
               /\ Rec(w)["completed"] = Rec(w)["total"]

\* C8: no two jobs started so far have the same task id.
C8_TaskIdsUnique ==
    \A v, w \in DOMAIN workers : v # w => workers[v].task_id # workers[w].task_id

\* C9: a pause or resume request on a job that is not 'running' is answered
\* 400 "Task is not running", a status, pause, resume or cancel request on
\* an unknown id is answered 404 "Task not found", and either leaves the
\* whole registry as it was.
C9_ErrorsLeaveRegistryUnchanged ==
    [][\A id \in Targets :
         /\ (/\ pause_task(id) \/ resume_task(id)
             /\ id \in DOMAIN task_status
             /\ task_status[id]["status"] # "running")
                => /\ response' = Reply(400, "Task is not running")
                   /\ task_status' = task_status
         /\ (/\ get_task_status(id) \/ pause_task(id) \/ resume_task(id) \/ cancel_task(id)
             /\ id \notin DOMAIN task_status)
                => /\ response' = Reply(404, "Task not found")
                   /\ task_status' = task_status]_vars

\* C9: a pause or resume request has just been refused on a job that is not
\* 'running'.
C9_RefusedRequest ==
    /\ response = Reply(400, "Task is not running")
    /\ \E id \in DOMAIN task_status : task_status[id]["status"] # "running"

\* C10: a status, pause, resume or cancel request changes the total,
\* completed, failed, progress and per-item map of no record; these change
\* only in a step of a worker started for the task id, or when a job is
\* started.
C10_ControlRequestsKeepCounts ==
    [][/\ ControlRequest =>
            /\ DOMAIN task_status' = DOMAIN task_status
            /\ \A id \in DOMAIN task_status :
                   Counts(task_status'[id]) = Counts(task_status[id])
       /\ \A id \in DOMAIN task_status :
              Counts(task_status'[id]) # Counts(task_status[id])
                  => \/ Len(workers') > Len(workers)
                     \/ \E w \in DOMAIN workers :
                            /\ workers[w].task_id = id
                            /\ workers'[w] # workers[w]]_vars

\* C10: a pause request was accepted on a job that had counted an item, and
\* the record still shows that count.
C10_PausedWithCounts ==
    \E w \in DOMAIN workers :
        /\ hist[w].pausedAt >= 1
        /\ Get(Rec(w), "paused", FALSE)
        /\ Rec(w)["completed"] = hist[w].pausedAt

\* the outcomes of an item that count as a failure of it
ItemFailures == {"notfound", "nourl", "dlfail", "exception"}

\* C11: in a batch job the failure of an item (unknown lecture id, no video
\* URL, download returning failure, exception while the item is processed)
\* leaves the status of the job as it was and takes the worker, through
\* the writes of lines 746-748 if the downloader returned failure, to the
\* head of the loop for the next item; the worker leaves the loop only at
\* its set-up, after the stop branch, or when every item has been taken up.
C11_ItemFailureKeepsJobGoing ==
    [][\A w \in DOMAIN workers :
         /\ \A o \in ItemFailures :
                download_task_item(w, o)
                    => /\ workers'[w].failed = workers[w].failed + 1
                       /\ task_status'[workers[w].task_id]["status"] = Rec(w)["status"]
                       /\ IF o = "dlfail"
                          THEN workers'[w].pc = "at747"
                          ELSE /\ workers'[w].pc = "loop"
                               /\ workers'[w].idx = workers[w].idx + 1
         /\ download_task_completed(w) \/ download_task_failed(w)
                => task_status'[workers[w].task_id]["status"] = Rec(w)["status"]
         /\ download_task_completed(w) => workers'[w].pc = "at748"
         /\ download_task_failed(w)
                => /\ workers'[w].pc = "loop"
                   /\ workers'[w].idx = workers[w].idx + 1
         /\ (/\ workers[w].kind = "download"
             /\ workers[w].pc # "done"
             /\ workers'[w].pc = "done")
                => \/ workers[w].pc \in {"start", "stopped"}
                   \/ workers[w].idx = Len(workers[w].lecture_ids)]_vars

\* C11: a batch job of two items whose first item failed has gone on to the
\* second, fetched it, and is Completed.
C11_SecondItemAfterFailure ==
    \E w \in DOMAIN workers :
        /\ workers[w].kind = "download" /\ workers[w].pc = "done"
        /\ workers[w].idx = 2 /\ workers[w].failed = 1 /\ workers[w].completed = 1
        /\ Rec(w)["completed"] = 1
        /\ State(Rec(w)) = "Completed"

\* the fetch failures a worker handles itself: the lecture is not in the
\* cache, no video URL can be extracted, the downloader returns failure
HandledFailures == {"notfound", "nourl", "dlfail"}

\* C12: a job whose item fetch fails in a handled way ends in Completed with
\* the failure counted in failed: the step of a single-item worker that
\* meets such a failure leaves the job Completed with failed = 1, and a
\* batch worker that met one and comes to the end of its list leaves the
\* job Completed with its failures in the failed field.
C12_HandledFailureEndsCompleted ==
    [][\A w \in DOMAIN workers :
         LET id == workers[w].task_id IN
         /\ \A o \in HandledFailures :
                download_single_task(w, o)
                    => /\ State(task_status'[id]) = "Completed"
                       /\ task_status'[id]["failed"] = 1
         /\ (/\ download_task_loop(w)
             /\ workers'[w].pc = "done"
             /\ workers[w].failed >= 1
             /\ Alone(w))
                => /\ State(task_status'[id]) = "Completed"
                   /\ task_status'[id]["failed"] = workers[w].failed]_vars

\* the last message of a record
LastMessage(r) == r["messages"][Len(r["messages"])]

\* the step is the outer exception handler of worker w: the set-up of a
\* batch worker that was asked for no local processing raises, or a single
\* or materials worker raises
Uncaught(w) ==
    \/ download_task_start(w) /\ ~workers[w].local_processing
    \/ download_single_task(w, "exception")
    \/ download_materials_task_start(w, "error")
    \/ download_materials_task_step(w, "exception")

\* C13: an uncaught exception in a worker leaves the job in the state Error
\* with the diagnostic as the last message of its log and ends the worker;
\* a worker that has ended takes no further step, so it appends no message,
\* takes up no item and is not started again.
C13_UncaughtExceptionEndsInError ==
    [][\A w \in DOMAIN workers :
         /\ Uncaught(w)
                => /\ State(task_status'[workers[w].task_id]) = "Error"
                   /\ LastMessage(task_status'[workers[w].task_id]) \in {"Task error", "Error"}
                   /\ workers'[w].pc = "done"
         /\ workers[w].pc = "done" => workers'[w] = workers[w]]_vars

\* C13: a materials worker raised with items still to do; the job is in the
\* state Error and the diagnostic is the last message.
C13_RaisedWithItemsLeft ==
    \E w \in DOMAIN workers :
        /\ workers[w].kind = "download_materials" /\ workers[w].pc = "done"
        /\ workers[w].todo # <<>>
        /\ State(Rec(w)) = "Error"
        /\ LastMessage(Rec(w)) = "Task error"

\* C14: within a batch job the items are processed in the order of the list:
\* the index of the worker never decreases and grows by one exactly when the
\* item in hand is finished, the worker takes an item up only at the head of
\* its loop (so never while another item is in hand), the list is never
\* reordered, and the index the worker writes to the record is that of the
\* item in hand.
C14_ItemsInOrder ==
    [][\A w \in DOMAIN workers :
         workers[w].kind = "download" =>
             /\ workers'[w].lecture_ids = workers[w].lecture_ids
             /\ workers'[w].idx \in {workers[w].idx, workers[w].idx + 1}
             /\ workers'[w].idx = workers[w].idx + 1
                    <=> \/ \E o \in Outcomes \ {"ok", "dlfail"} : download_task_item(w, o)
                        \/ download_task_failed(w)
             /\ \A o \in Outcomes :
                    download_task_item(w, o)
                        => /\ workers[w].pc = "item"
                           /\ task_status'[workers[w].task_id]["current_lecture_index"]
                                  = workers[w].idx
             /\ (workers[w].pc # "item" /\ workers'[w].pc = "item")
                    => /\ download_task_loop(w)
                       /\ workers'[w].idx < Len(workers[w].lecture_ids)]_vars

\* C14: the worker of a two-item batch job has the second item in hand, after
\* the first; the record still shows the index of the first.
C14_SecondItemInHand ==
    \E w \in DOMAIN workers :
        /\ workers[w].kind = "download" /\ workers[w].pc = "item"
        /\ workers[w].idx = 1 /\ Len(workers[w].lecture_ids) = 2
        /\ Get(Rec(w), "current_lecture_index", -1) = 0

\* the item ids of the job of worker w
JobItems(w) ==
    IF workers[w].kind = "download"
    THEN {workers[w].lecture_ids[i] : i \in 1..Len(workers[w].lecture_ids)}
    ELSE IF workers[w].kind = "download_single" THEN {workers[w].item_id}
    ELSE {}

\* C15: when a batch or single job is Completed or Error and its worker has
\* exited, every item id of the job is in the per-item map of its record,
\* marked completed or failed (stated for the jobs that share their task id
\* with no other job).
C15_ItemMapRecordsOutcomes ==
    \A w \in DOMAIN workers :
        (/\ Alone(w)
         /\ workers[w].pc = "done"
         /\ State(Rec(w)) \in {"Completed", "Error"})
            => \A i \in JobItems(w) :
                   /\ i \in DOMAIN Rec(w)["items"]
                   /\ Rec(w)["items"][i].status \in {"completed", "failed"}

\* the messages a worker appends about a failure
FailureMessages == {"Lecture not found", "Failed to extract video URL", "Failed to download",
                    "Error processing lecture", "Task error", "Error"}

\* the step of worker w counts a failure: the batch worker in its local
\* counter (lines 637, 652, 742, 751), the others in the record
CountsFailure(w) ==
    /\ workers'[w] # workers[w]
    /\ IF workers[w].kind = "download"
       THEN workers'[w].failed > workers[w].failed
       ELSE task_status'[workers[w].task_id]["failed"] > Rec(w)["failed"]

\* the messages the step adds to the log of record id
Appended(id) ==
    SubSeq(task_status'[id]["messages"], Len(task_status[id]["messages"]) + 1,
           Len(task_status'[id]["messages"]))

\* C16: whenever a worker counts a failure it appends a message about that
\* failure in the same step, and no step that starts no job takes a message
\* out of a log.
C16_FailuresAreLogged ==
    [][/\ \A w \in DOMAIN workers :
            CountsFailure(w)
                => \E k \in DOMAIN Appended(workers[w].task_id) :
                       Appended(workers[w].task_id)[k] \in FailureMessages
       /\ Len(workers') = Len(workers)
            => \A id \in DOMAIN task_status :
                   SubSeq(task_status'[id]["messages"], 1, Len(task_status[id]["messages"]))
                       = task_status[id]["messages"]]_vars

\* C17: in every state the record of a batch job has progress equal to the
\* integer percentage of completed + failed over total (stated for the jobs
\* that share their task id with no other job).
C17_ProgressMatchesCounts ==
    \A w \in DOMAIN workers :
        (Alone(w) /\ workers[w].kind = "download")
            => Rec(w)["progress"]
                   = Percent(Rec(w)["completed"] + Rec(w)["failed"], Rec(w)["total"])

\* C18: whatever optional stages a batch job was created with, its worker
\* ends the job before the end of its list only after the stop branch or in
\* the outer exception handler, and the job enters Error only in that
\* handler: a requested stage that is not available stops no fetch and does
\* not put the job in Error.
C18_FetchWhateverStagesRequested ==
    [][\A w \in DOMAIN workers :
         LET id == workers[w].task_id IN
         (/\ workers[w].kind = "download"
          /\ workers[w].local_processing
          /\ workers'[w] # workers[w])
             => /\ (/\ workers'[w].pc = "done"
                    /\ workers[w].idx < Len(workers[w].lecture_ids))
                       => \/ workers[w].pc = "stopped"
                          \/ LastMessage(task_status'[id]) = "Task error"
                /\ (State(Rec(w)) # "Error" /\ State(task_status'[id]) = "Error")
                       => LastMessage(task_status'[id]) = "Task error"]_vars

\* C19: when the worker of a job of any kind has exited and the job is
\* Completed, the worker has regenerated the hierarchy listing (stated for
\* the jobs that share their task id with no other job).
C19_HierarchyRegeneratedOnCompletion ==
    \A w \in DOMAIN workers :
        (/\ Alone(w)
         /\ workers[w].pc = "done"
         /\ State(Rec(w)) = "Completed")
            => hist[w].regenerated

\* the ids of the videos of all sections of a view, in order
RECURSIVE VideoIds(_)
VideoIds(course_sections) ==
    IF course_sections = <<>> THEN <<>>
    ELSE [k \in DOMAIN Head(course_sections).videos |-> Head(course_sections).videos[k].id]
             \o VideoIds(Tail(course_sections))

\* C20: the video lists of the sections of a course view, the catch-all
\* 'Other Videos' included, have as many entries together as the course has
\* lectures, and every lecture id is in them exactly once.
C20_MergePartitionsLectures ==
    courses_data.pc \in {"fetch_all_courses", "refresh_course"}
        => LET ids == VideoIds(courses_data.course_sections) IN
           /\ Len(ids) = Len(courses_data.lectures)
           /\ \A l \in DOMAIN courses_data.lectures :
                  Cardinality({k \in DOMAIN ids : ids[k] = courses_data.lectures[l].lecture_id}) = 1

\* C20: a view was made of a course one of whose lectures matches two
\* declared sections and another of whose lectures matches none.
C20_TwoMatchesAndOther ==
    /\ courses_data.pc = "refresh_course"
    /\ Len(courses_data.sections_raw) = 2
    /\ \E l \in DOMAIN courses_data.lectures :
           \A k \in DOMAIN courses_data.sections_raw :
               Matches(courses_data.lectures[l].week, courses_data.sections_raw[k].title)
    /\ courses_data.course_sections[Len(courses_data.course_sections)].title = <<"Other Videos">>

\* the sections of the list whose title matches the week label
MatchingSections(week, sections) ==
    {k \in DOMAIN sections : Matches(week, sections[k].title)}

\* the least number of a non-empty set of numbers
Least(S) == CHOOSE k \in S : \A j \in S : k <= j

\* the ids of the videos of a section of a view
IdsIn(section) == {section.videos[k].id : k \in DOMAIN section.videos}

\* C21: in a course view every lecture is in the first section, in the order
\* of the list, whose title matches its week label by one of the three
\* rules; the lectures that match no section are in 'Other Videos', which is
\* the last section and is there only if there is such a lecture; the
\* lectures 1<juchar>, 2<juchar>, Extra against the sections
\* '1<juchar>: Intro', '2<juchar>: Data' give one lecture each and Extra in
\* 'Other Videos'.
C21_FirstMatchingSectionWins ==
    courses_data.pc \in {"fetch_all_courses", "refresh_course"}
        => LET lectures == courses_data.lectures
               sections == SectionsRaw(lectures, courses_data.sections_raw)
               view == courses_data.course_sections
               unmatched == {l \in DOMAIN lectures :
                                MatchingSections(lectures[l].week, sections) = {}}
           IN
           /\ \A k \in DOMAIN sections : view[k].title = sections[k].title
           /\ \A l \in DOMAIN lectures \ unmatched :
                  lectures[l].lecture_id
                      \in IdsIn(view[Least(MatchingSections(lectures[l].week, sections))])
           /\ IF unmatched = {}
              THEN Len(view) = Len(sections)
              ELSE /\ Len(view) = Len(sections) + 1
                   /\ view[Len(view)].title = <<"Other Videos">>
                   /\ IdsIn(view[Len(view)]) = {lectures[l].lecture_id : l \in unmatched}
           /\ (lectures = ScenarioLectures /\ courses_data.sections_raw = ScenarioSections)
                  => view = <<[title |-> ScenarioSections[1].title,
                               videos |-> <<Video(ScenarioLectures[1])>>],
                              [title |-> ScenarioSections[2].title,
                               videos |-> <<Video(ScenarioLectures[2])>>],
                              [title |-> <<"Other Videos">>,
                               videos |-> <<Video(ScenarioLectures[3])>>]>>

\* C21: the view of the course with the lectures 1<juchar>, 2<juchar>, Extra
\* and the two declared sections has been made.
C21_ScenarioViewed ==
    /\ courses_data.pc = "fetch_all_courses"
    /\ courses_data.lectures = ScenarioLectures
    /\ courses_data.sections_raw = ScenarioSections
    /\ Len(courses_data.course_sections) = 3

\* the answer of the call being taken comes from the cache file
FromCache(reply) == reply.success /\ "from_cache" \in DOMAIN reply

\* a call of /api/courses is being taken
CatalogCall ==
    \E f \in BOOLEAN, o \in CourseOutcomes, fault \in CatalogFaults : api_courses(f, o, fault)

\* C22: the cache never serves an entry as old as the TTL or older, and
\* never one written under other cookies than the caller's: every catalog
\* a call answers with was fetched under the caller's own cookies
C22_CacheServesOwnFreshEntry ==
    [][CatalogCall =>
          /\ FromCache(catalog'.reply) =>
                /\ catalog.cache_file.state = "saved"
                /\ now - catalog.cache_file.mtime < TTL
                /\ catalog.cache_file.auth_cookies = catalog.auth_session
          /\ catalog'.reply.success =>
                \A c \in CourseIds : catalog'.reply.courses[c].owner = catalog.auth_session]_vars

\* B asked within the TTL of the entry A wrote, and was answered with B's
\* own catalog
C22_OtherIdentityWithinTTL ==
    /\ catalog.passed_over = "A"
    /\ catalog.auth_session = "B"
    /\ catalog.reply.success
    /\ ~FromCache(catalog.reply)
    /\ \A c \in CourseIds : catalog.reply.courses[c].owner = "B"

\* a call without force_refresh that raises nothing, by the identity whose
\* entry, younger than the TTL, is in the cache file
RepeatedCall ==
    /\ catalog.cache_file.state = "saved"
    /\ catalog.cache_file.auth_cookies = catalog.auth_session
    /\ now - catalog.cache_file.mtime < TTL
    /\ \E o \in CourseOutcomes : api_courses(FALSE, o, "none")

\* C23: the second call without force_refresh by the same identity within
\* the TTL sends no request to the scraper: no course list, no course
\* content, no lecture list
C23_RepeatedCallAsksNothing ==
    [][RepeatedCall => catalog'.sent = {}]_vars

\* a call is being answered from the cache file
ServedFromCache == CatalogCall /\ FromCache(catalog'.reply)

NewEntry ==
    /\ catalog'.cache_file.state = "saved"
    /\ catalog'.cache_file.mtime = now
    /\ catalog'.cache_file.auth_cookies = catalog.auth_session
    /\ catalog'.cache_file.populated_by = catalog'.reply
    /\ catalog'.cache_file.courses_data = catalog'.reply.courses

\* a call by a logged-in caller with force_refresh, or when the cache file
\* is as old as the TTL or older
RefreshingCall(force_refresh) ==
    /\ catalog.auth_session # "none"
    /\ force_refresh \/ ~Fresh(catalog.cache_file, now)
    /\ \E o \in CourseOutcomes, fault \in CatalogFaults : api_courses(force_refresh, o, fault)

\* C25: a call with force_refresh never reads the cache file, and every
\* call with force_refresh or after the TTL has expired ends with the cache
\* file holding a new entry, computed by that call, for the caller's cookies
C25_RefreshRepopulates ==
    [][/\ RefreshingCall(TRUE) => ~catalog'.opened
       /\ \A f \in BOOLEAN : RefreshingCall(f) => NewEntry]_vars

C27_DryRunChangesNothing ==
    [][MigrateStep /\ disk'.dry_run =>
          /\ disk'.files = disk.files
          /\ disk'.dirs = disk.dirs
          /\ disk'.exists = disk.exists]_vars

\* a dry run is over that has met a file to migrate and a file without
\* extension
C27_DryRunOver ==
    /\ disk.pc = "done"
    /\ disk.dry_run
    /\ disk.stats.migrated >= 1
    /\ disk.stats.removed_no_ext >= 1

\* the job of worker w was cancelled while it was paused
PausedThenCancelled(w) == w \in DOMAIN workers /\ hist[w].cancelledPaused

\* C28: a batch job that is paused and then cancelled does not stay
\* blocked: after the cancel the pause flag is clear and the stop flag set,
\* the worker is not held by the pause wait, takes up no further item and
\* its thread comes to its end
C28_PausedThenCancelledEnds ==
    /\ [][\A id \in DOMAIN task_status :
             cancel_task(id) => /\ ~Get(task_status'[id], "paused", FALSE)
                                /\ Get(task_status'[id], "stopped", FALSE)]_vars
    /\ [](\A w \in DOMAIN workers : PausedThenCancelled(w) => ~StillPaused(Rec(w)))
    /\ [][\A w \in DOMAIN workers :
             PausedThenCancelled(w) /\ workers[w].pc # "item" => workers'[w].pc # "item"]_vars
    /\ \A w \in 1..CancelWorkers :
          PausedThenCancelled(w) ~> (w \in DOMAIN workers /\ workers[w].pc = "done")

\* C29: a materials job or a single job honours cancel and pause as a
\* batch job does: after the cancel its worker ends at most the item in
\* flight, and from an accepted pause until the resume its completed count
\* grows by no more than the item in flight (stated for the jobs that share
\* their task id with no other job)
C29_OtherKindsHonourPauseAndCancel ==
    \A w \in DOMAIN workers :
        Alone(w) /\ workers[w].kind \in {"download_materials", "download_single"}
            => /\ hist[w].finishedAfterCancel <= 1
               /\ hist[w].pausedAt >= 0 => Rec(w)["completed"] <= hist[w].pausedAt + 1

\* the job of task id is in state Running
Running(id) == id \in DOMAIN task_status /\ State(task_status[id]) = "Running"

\* the job of task id is in a terminal state, or paused
EndedOrPaused(id) ==
    /\ id \in DOMAIN task_status
    /\ \/ State(task_status[id]) \in Terminal
       \/ Get(task_status[id], "paused", FALSE)

\* C30: every job that was started leaves Running for a terminal state in
\* the end, whatever its kind and whatever the item type of a single job,
\* when its thread is given the time to run and the job is not left paused
C30_EveryJobEnds ==
    \A k \in Kinds, t \in 0..OneClock : Running(TaskId(k, t)) ~> EndedOrPaused(TaskId(k, t))

\* the items worker w has counted: those behind it and the one whose
\* counts it is writing to the record
Processed(w) ==
    workers[w].idx + (IF workers[w].pc \in {"at747", "at748"} THEN 1 ELSE 0)

Pending(w) ==
    {workers[w].lecture_ids[k] :
        k \in {k \in 1..Len(workers[w].lecture_ids) :
                  k > workers[w].idx + (IF workers[w].pc \in InFlightPcs THEN 1 ELSE 0)}}

\* C32: a catalog operation that replaces the lecture table while a batch
\* job is running does not make an item id of the job, resolvable and not
\* yet processed, unresolvable
C32_PendingItemsStayResolvable ==
    [][TableStep =>
          \A w \in DOMAIN workers :
              workers[w].kind = "download" /\ workers[w].pc \notin {"done", "stopped"}
                  => \A i \in Pending(w) : i \in lectures_cache => i \in lectures_cache']_vars

\* C33: after a fetch that failed there is no file at its destination, and
\* a fetch reports success without a transfer only over a whole file
C33_FailedTransferLeavesNoFile ==
    "transferred" \in DOMAIN response =>
        /\ ~response.ok => ~Exists(disk.files, response.path)
        /\ response.ok /\ ~response.transferred
              => [path |-> response.path, content |-> "whole"] \in disk.files

\* C34: the courses of an answer of /api/courses are those of the selection
\* asked for, also when the answer comes from the cache file
C34_CoursesOfTheSelection ==
    [][\A s \in Selections, f \in BOOLEAN, o \in CourseOutcomes, fault \in CatalogFaults :
          get_courses(s, f, o, fault) /\ catalog'.reply.success
              => DOMAIN catalog'.reply.courses = Listing(s)]_vars

C36_NoCoursesIsAnEmptyCatalog ==
    [][\A f \in BOOLEAN, o \in CourseOutcomes :
          /\ catalog.auth_session # "none"
          /\ Listing("2024-21") = {}
          /\ get_courses("2024-21", f, o, "none")
          => /\ catalog'.reply.success
             /\ DOMAIN catalog'.reply.courses = {}]_vars

\* C37: a run of migrate_downloads that is not a dry run deletes a file
\* only when it handles that file in the walk as a file without extension
\* or as the source of a relocation: files of a directory whose name was
\* not parsed, files skipped and files whose migration failed stay
C37_OnlyHandledFilesAreDeleted ==
    [][~disk'.dry_run =>
          \A f \in disk.files \ disk'.files :
              /\ migrate_file(f, "none")
              /\ parse_old_directory_name(Top(f)).ok
              /\ ~Hidden(f.name)
              /\ ~Metadata(f.name)]_vars
====
